---- MODULE Spec2Model ----
(***************************************************************************)
(* Model of the NetApp ONTAP SAN toolkit CLI: the pagination walkers       *)
(* (paginate_all of igroup/list.py and lun/list.py, OntapClient._paginate  *)
(* of run.py), the HTTP helpers they call, the delete commands, and the    *)
(* tables the list commands print (utils/utils.py, igroup/list.py,         *)
(* lun/list.py, lunmap/list.py) with their wrap_text and from_bytes.       *)
(*                                                                         *)
(* Text is modelled as a sequence of one-character strings, so that the    *)
(* Python string operations of the source (split, partition, lstrip,       *)
(* startswith, lower, f-strings) are computed, never assumed.              *)
(***************************************************************************)
EXTENDS Integers, Sequences, FiniteSets, TLC

(***************************************************************************)
(* Python str operations                                                   *)
(***************************************************************************)

\* s[i:] with a 1-based index: the characters of s from position i on.
From(s, i) == SubSeq(s, i, Len(s))

\* str.startswith(p)
StartsWith(s, p) == Len(p) <= Len(s) /\ SubSeq(s, 1, Len(p)) = p

\* str.endswith(p)
EndsWith(s, p) == Len(p) <= Len(s) /\ SubSeq(s, Len(s) - Len(p) + 1, Len(s)) = p

\* str.find(sub), 1-based; 0 when sub does not occur in s.
Find(s, sub) ==
    LET hits == {i \in 1..(Len(s) - Len(sub) + 1) : SubSeq(s, i, i + Len(sub) - 1) = sub}
    IN  IF hits = {} THEN 0 ELSE CHOOSE i \in hits : \A j \in hits : i <= j

\* sub in s
Contains(s, sub) == Find(s, sub) # 0

\* str.split(sep): every piece, split at each occurrence of sep from the left.
RECURSIVE Split(_, _)
Split(s, sep) ==
    LET i == Find(s, sep)
    IN  IF i = 0 THEN <<s>>
        ELSE <<SubSeq(s, 1, i - 1)>> \o Split(From(s, i + Len(sep)), sep)

\* str.split(sep, 1): at most two pieces, split at the first occurrence of sep.
Split1(s, sep) ==
    LET i == Find(s, sep)
    IN  IF i = 0 THEN <<s>>
        ELSE <<SubSeq(s, 1, i - 1), From(s, i + Len(sep))>>

\* str.partition(sep): <<head, sep, tail>>, or <<s, "", "">> when sep is absent.
Partition(s, sep) ==
    LET i == Find(s, sep)
    IN  IF i = 0 THEN <<s, <<>>, <<>>>>
        ELSE <<SubSeq(s, 1, i - 1), sep, From(s, i + Len(sep))>>

\* str.lstrip(c) for a one-character c.
RECURSIVE LStrip(_, _)
LStrip(s, c) == IF s # <<>> /\ Head(s) = c THEN LStrip(Tail(s), c) ELSE s

\* str.strip(): leading and trailing white space removed.
IsSpace(c) == c \in {" ", "\n", "\t", "\r"}

RECURSIVE LStripSpace(_)
LStripSpace(s) == IF s # <<>> /\ IsSpace(Head(s)) THEN LStripSpace(Tail(s)) ELSE s

RECURSIVE RStripSpace(_)
RStripSpace(s) ==
    IF s # <<>> /\ IsSpace(s[Len(s)]) THEN RStripSpace(SubSeq(s, 1, Len(s) - 1)) ELSE s

Strip(s) == RStripSpace(LStripSpace(s))

\* sep.join(parts)
RECURSIVE Join(_, _)
Join(sep, parts) ==
    IF parts = <<>> THEN <<>>
    ELSE IF Len(parts) = 1 THEN parts[1]
    ELSE parts[1] \o sep \o Join(sep, Tail(parts))

\* The decimal digits of a natural number, as str(n) gives them.
DigitChars == <<"0", "1", "2", "3", "4", "5", "6", "7", "8", "9">>

RECURSIVE IntStr(_)
IntStr(n) == IF n < 10 THEN <<DigitChars[n + 1]>>
             ELSE IntStr(n \div 10) \o <<DigitChars[(n % 10) + 1]>>

IsDigit(c) == c \in {DigitChars[i] : i \in 1..10}

DigitVal(c) == (CHOOSE i \in 1..10 : DigitChars[i] = c) - 1

(***************************************************************************)
(* Python values, as json.loads builds them.  A dict is the sequence of    *)
(* its <<key, value>> items in insertion order.                            *)
(***************************************************************************)
PyNone == [t |-> "none"]
PyBool(b) == [t |-> "bool", b |-> b]
PyInt(n) == [t |-> "int", n |-> n]
PyStr(s) == [t |-> "str", s |-> s]
PyList(xs) == [t |-> "list", xs |-> xs]
PyDict(kv) == [t |-> "dict", kv |-> kv]

IsDict(v) == v.t = "dict"

\* d[k] = v on a dict's items: an existing key keeps its place and takes the
\* new value, a new key is appended.
DictSet(kv, k, v) ==
    IF \E i \in 1..Len(kv) : kv[i][1] = k
    THEN [i \in 1..Len(kv) |-> IF kv[i][1] = k THEN <<k, v>> ELSE kv[i]]
    ELSE Append(kv, <<k, v>>)

HasKey(kv, k) == \E i \in 1..Len(kv) : kv[i][1] = k

\* dict.get(k, default) on a dict's items.
DictGet(kv, k, default) ==
    IF HasKey(kv, k) THEN kv[CHOOSE i \in 1..Len(kv) : kv[i][1] = k][2] ELSE default

\* bool(v): Python truthiness.
Truthy(v) ==
    CASE v.t = "none" -> FALSE
      [] v.t = "bool" -> v.b
      [] v.t = "int"  -> v.n # 0
      [] v.t = "str"  -> v.s # <<>>
      [] v.t = "list" -> v.xs # <<>>
      [] v.t = "dict" -> v.kv # <<>>

(***************************************************************************)
(* json.loads on a body text: objects, arrays, strings without escapes,    *)
(* non-negative integers, true, false, null, with white space allowed      *)
(* between tokens.  A parse step returns [ok, v, i]: i is the position     *)
(* after the value.                                                        *)
(***************************************************************************)
ParseFail == [ok |-> FALSE, v |-> PyNone, i |-> 0]

RECURSIVE SkipSpace(_, _)
SkipSpace(s, i) == IF i <= Len(s) /\ IsSpace(s[i]) THEN SkipSpace(s, i + 1) ELSE i

RECURSIVE DigitsEnd(_, _)
DigitsEnd(s, i) == IF i <= Len(s) /\ IsDigit(s[i]) THEN DigitsEnd(s, i + 1) ELSE i

RECURSIVE DigitsVal(_)
DigitsVal(ds) == IF ds = <<>> THEN 0
                 ELSE 10 * DigitsVal(SubSeq(ds, 1, Len(ds) - 1)) + DigitVal(ds[Len(ds)])

Literal(s, i, word, v) ==
    IF i + Len(word) - 1 <= Len(s) /\ SubSeq(s, i, i + Len(word) - 1) = word
    THEN [ok |-> TRUE, v |-> v, i |-> i + Len(word)]
    ELSE ParseFail

ParseString(s, i) ==
    LET close == Find(From(s, i + 1), <<"\"">>)
    IN  IF close = 0 THEN ParseFail
        ELSE [ok |-> TRUE, v |-> PyStr(SubSeq(s, i + 1, i + close - 1)), i |-> i + close + 1]

ParseNumber(s, i) ==
    LET e == DigitsEnd(s, i)
    IN  IF s[i] = "0" /\ e > i + 1 THEN ParseFail
        ELSE [ok |-> TRUE, v |-> PyInt(DigitsVal(SubSeq(s, i, e - 1))), i |-> e]

RECURSIVE ParseValue(_, _)
RECURSIVE ParseElements(_, _, _)
RECURSIVE ParseMembers(_, _, _)

ParseValue(s, i0) ==
    LET i == SkipSpace(s, i0)
    IN  IF i > Len(s) THEN ParseFail
        ELSE CASE s[i] = "{" ->
                    LET j == SkipSpace(s, i + 1)
                    IN  IF j <= Len(s) /\ s[j] = "}"
                        THEN [ok |-> TRUE, v |-> PyDict(<<>>), i |-> j + 1]
                        ELSE ParseMembers(s, j, <<>>)
               [] s[i] = "[" ->
                    LET j == SkipSpace(s, i + 1)
                    IN  IF j <= Len(s) /\ s[j] = "]"
                        THEN [ok |-> TRUE, v |-> PyList(<<>>), i |-> j + 1]
                        ELSE ParseElements(s, j, <<>>)
               [] s[i] = "\"" -> ParseString(s, i)
               [] IsDigit(s[i]) -> ParseNumber(s, i)
               [] s[i] = "n" -> Literal(s, i, <<"n", "u", "l", "l">>, PyNone)
               [] s[i] = "t" -> Literal(s, i, <<"t", "r", "u", "e">>, PyBool(TRUE))
               [] s[i] = "f" -> Literal(s, i, <<"f", "a", "l", "s", "e">>, PyBool(FALSE))
               [] OTHER -> ParseFail

\* The elements of an array from position i on, up to and including "]".
ParseElements(s, i, acc) ==
    LET r == ParseValue(s, i)
        j == SkipSpace(s, r.i)
    IN  IF ~r.ok \/ j > Len(s) THEN ParseFail
        ELSE IF s[j] = "," THEN ParseElements(s, j + 1, Append(acc, r.v))
        ELSE IF s[j] = "]" THEN [ok |-> TRUE, v |-> PyList(Append(acc, r.v)), i |-> j + 1]
        ELSE ParseFail

\* The members of an object from position i on, up to and including "}".
ParseMembers(s, i0, acc) ==
    LET i == SkipSpace(s, i0)
        k == IF i <= Len(s) /\ s[i] = "\"" THEN ParseString(s, i) ELSE ParseFail
        c == SkipSpace(s, k.i)
        r == IF k.ok /\ c <= Len(s) /\ s[c] = ":" THEN ParseValue(s, c + 1) ELSE ParseFail
        j == SkipSpace(s, r.i)
    IN  IF ~r.ok \/ j > Len(s) THEN ParseFail
        ELSE IF s[j] = "," THEN ParseMembers(s, j + 1, DictSet(acc, k.v.s, r.v))
        ELSE IF s[j] = "}"
             THEN [ok |-> TRUE, v |-> PyDict(DictSet(acc, k.v.s, r.v)), i |-> j + 1]
        ELSE ParseFail

\* r.json(): [ok, v]; ok is FALSE where json.loads raises JSONDecodeError.
JsonLoads(text) ==
    LET r == ParseValue(text, 1)
    IN  IF r.ok /\ SkipSpace(text, r.i) > Len(text) THEN [ok |-> TRUE, v |-> r.v]
        ELSE [ok |-> FALSE, v |-> PyNone]

(***************************************************************************)
(* repr(v) and str(v) of a decoded value, as an f-string renders them.     *)
(***************************************************************************)
RECURSIVE Repr(_)
RECURSIVE ReprAll(_)

ReprAll(xs) == [i \in 1..Len(xs) |-> Repr(xs[i])]

Repr(v) ==
    CASE v.t = "none" -> <<"N", "o", "n", "e">>
      [] v.t = "bool" -> IF v.b THEN <<"T", "r", "u", "e">> ELSE <<"F", "a", "l", "s", "e">>
      [] v.t = "int"  -> IntStr(v.n)
      [] v.t = "str"  -> <<"'">> \o v.s \o <<"'">>
      [] v.t = "list" -> <<"[">> \o Join(<<",", " ">>, ReprAll(v.xs)) \o <<"]">>
      [] v.t = "dict" ->
            <<"{">>
            \o Join(<<",", " ">>,
                    [i \in 1..Len(v.kv) |->
                        <<"'">> \o v.kv[i][1] \o <<"'", ":", " ">> \o Repr(v.kv[i][2])])
            \o <<"}">>

\* str(v): a str is itself, anything else is its repr.
Str(v) == IF v.t = "str" THEN v.s ELSE Repr(v)

(***************************************************************************)
(* Text constants of the source                                            *)
(***************************************************************************)
\* "https://"
HttpsScheme == <<"h", "t", "t", "p", "s", ":", "/", "/">>

\* "/api"
ApiSuffix == <<"/", "a", "p", "i">>

\* "/protocols/san/igroups"
IgroupsPath == <<"/", "p", "r", "o", "t", "o", "c", "o", "l", "s", "/", "s", "a", "n", "/", "i", "g", "r", "o", "u", "p", "s">>

\* "/storage/luns"
LunsPath == <<"/", "s", "t", "o", "r", "a", "g", "e", "/", "l", "u", "n", "s">>

\* "/protocols/san/lun-maps"
LunMapsPath == <<"/", "p", "r", "o", "t", "o", "c", "o", "l", "s", "/", "s", "a", "n", "/", "l", "u", "n", "-", "m", "a", "p", "s">>

\* "records"
KeyRecords == <<"r", "e", "c", "o", "r", "d", "s">>

\* "_links"
KeyLinks == <<"_", "l", "i", "n", "k", "s">>

\* "next"
KeyNext == <<"n", "e", "x", "t">>

\* "href"
KeyHref == <<"h", "r", "e", "f">>

\* "http"
HttpPrefix == <<"h", "t", "t", "p">>

\* " failed: "
FailedText == <<" ", "f", "a", "i", "l", "e", "d", ":", " ">>

\* "/"
Slash == <<"/">>

\* "?"
QuestionMark == <<"?">>

\* "&"
Ampersand == <<"&">>

\* "="
EqualsSign == <<"=">>

\* " "
Space == <<" ">>

\* "fields"
KeyFields == <<"f", "i", "e", "l", "d", "s">>

\* "GET"
MethodGet == <<"G", "E", "T">>

(***************************************************************************)
(* The transport: requests.get / Session.request.  A request is what goes  *)
(* on the wire: the method and the URL with the encoded params appended.   *)
(***************************************************************************)

\* urllib's quote_plus on one character of a key or value of `params`.
QuotePlusChar(c) ==
    CASE c = " " -> <<"+">>
      [] c = "%" -> <<"%", "2", "5">>
      [] c = "/" -> <<"%", "2", "F">>
      [] c = ":" -> <<"%", "3", "A">>
      [] c = "," -> <<"%", "2", "C">>
      [] c = "*" -> <<"%", "2", "A">>
      [] c = "=" -> <<"%", "3", "D">>
      [] c = "&" -> <<"%", "2", "6">>
      [] c = "?" -> <<"%", "3", "F">>
      [] OTHER   -> <<c>>

RECURSIVE QuotePlus(_)
QuotePlus(s) == IF s = <<>> THEN <<>> ELSE QuotePlusChar(Head(s)) \o QuotePlus(Tail(s))

\* urlencode(params): k=v pairs joined by "&", in the dict's order.
UrlEncode(params) ==
    Join(Ampersand,
         [i \in 1..Len(params) |->
             QuotePlus(params[i][1]) \o EqualsSign \o QuotePlus(params[i][2])])

\* The URL requests puts on the wire for (url, params): the encoded params are
\* appended after "?", or after "&" when the url already carries a query.
PreparedUrl(url, params) ==
    IF params = <<>> THEN url
    ELSE IF Contains(url, QuestionMark)
         THEN url \o Ampersand \o UrlEncode(params)
         ELSE url \o QuestionMark \o UrlEncode(params)

Request(method, url, params) == [method |-> method, url |-> PreparedUrl(url, params)]

(***************************************************************************)
(* Outcomes of a Python call: a returned value or a raised exception.      *)
(***************************************************************************)
Raise(exc, msg) == [ok |-> FALSE, exc |-> exc, msg |-> msg]

\* Extend with the new page put before the accumulated records.
ExtendPrepended(items, v) ==
    IF v.t = "list" THEN [ok |-> TRUE, items |-> v.xs \o items]
    ELSE [ok |-> FALSE, items |-> items]

\* items.extend(v): the elements v contributes, or the TypeError of a value
\* that is not iterable.  A str yields its characters, a dict its keys.
Extend(items, v) ==
    CASE v.t = "list" -> [ok |-> TRUE, items |-> items \o v.xs]
      [] v.t = "str"  -> [ok |-> TRUE, items |-> items \o [i \in 1..Len(v.s) |-> PyStr(<<v.s[i]>>)]]
      [] v.t = "dict" -> [ok |-> TRUE, items |-> items \o [i \in 1..Len(v.kv) |-> PyStr(v.kv[i][1])]]
      [] OTHER        -> [ok |-> FALSE, items |-> items]

\* What one turn of a walker's loop ends in: the next request ("next"), the
\* accumulated list ("return") or an exception ("raise").
StepNext(items, url, path, query) ==
    [kind |-> "next", items |-> items, url |-> url, path |-> path, query |-> query,
     exc |-> "", msg |-> <<>>]
StepReturn(items) ==
    [kind |-> "return", items |-> items, url |-> <<>>, path |-> <<>>, query |-> <<>>,
     exc |-> "", msg |-> <<>>]
StepRaise(items, exc, msg) ==
    [kind |-> "raise", items |-> items, url |-> <<>>, path |-> <<>>, query |-> <<>>,
     exc |-> exc, msg |-> msg]

(***************************************************************************)
(* igroup/list.py and lun/list.py: get_page and paginate_all               *)
(***************************************************************************)

\* The status test of get_page: an HTTP error status.
GetPageIsError(status) == status >= 400

\* The message of the HTTPError get_page raises: f"{r.status_code} {r.text}".
GetPageErrorMessage(resp) == IntStr(resp.status) \o Space \o resp.text

\* (data.get("_links") or {})
LinksOrEmpty(l) == IF Truthy(l) THEN l ELSE PyDict(<<>>)

\* .get("href") on the value of "next".
GetPageHref(data, n) ==
    IF ~IsDict(n) THEN Raise("AttributeError", <<>>)
    ELSE [ok |-> TRUE, data |-> data, next_href |-> DictGet(n.kv, KeyHref, PyNone)]

\* .get("next", {}) on the value of "_links".
GetPageNext(data, l) ==
    IF ~IsDict(l) THEN Raise("AttributeError", <<>>)
    ELSE GetPageHref(data, DictGet(l.kv, KeyNext, PyDict(<<>>)))

\* get_page from data = r.json() on: j is the outcome of r.json().
GetPageData(j) ==
    IF ~j.ok THEN Raise("JSONDecodeError", <<>>)
    ELSE IF ~IsDict(j.v) THEN Raise("AttributeError", <<>>)
    ELSE GetPageNext(j.v, LinksOrEmpty(DictGet(j.v.kv, KeyLinks, PyNone)))

\* get_page after the response arrived: (data, next_href) or an exception.
GetPage(resp) ==
    IF GetPageIsError(resp.status) THEN Raise("HTTPError", GetPageErrorMessage(resp))
    ELSE GetPageData(JsonLoads(resp.text))

\* base_api as main builds it: f"https://{host}/api".
BaseApi(h) == HttpsScheme \o h \o ApiSuffix

\* The URL paginate_all requests for a continuation reference (a str).
ResolveNext(base_api, next_href) ==
    IF StartsWith(next_href, HttpPrefix) THEN next_href
    ELSE IF StartsWith(next_href, Slash)
         THEN Split(base_api, ApiSuffix)[1] \o next_href
         ELSE base_api \o Slash \o LStrip(next_href, "/")

\* The `while next_href:` loop of paginate_all, up to its next get_page call.
PaginateAllLoop(base_api, href, ext) ==
    IF ~ext.ok THEN StepRaise(ext.items, "TypeError", <<>>)
    ELSE IF ~Truthy(href) THEN StepReturn(ext.items)
    ELSE IF href.t # "str" THEN StepRaise(ext.items, "AttributeError", <<>>)
    ELSE StepNext(ext.items, ResolveNext(base_api, href.s), <<>>, <<>>)

\* items.extend(data.get("records", [])) on the outcome of get_page.
PaginateAllExtend(base_api, items, page) ==
    IF ~page.ok THEN StepRaise(items, page.exc, page.msg)
    ELSE PaginateAllLoop(base_api, page.next_href,
                         Extend(items, DictGet(page.data.kv, KeyRecords, PyList(<<>>))))

\* paginate_all from the arrival of a response to its next request or its end.
PaginateAllStep(base_api, items, resp) == PaginateAllExtend(base_api, items, GetPage(resp))

(***************************************************************************)
(* run.py: OntapClient._req and OntapClient._paginate                      *)
(***************************************************************************)

\* self.base of OntapClient.__init__: f"https://{host}/api".
ClientBase(h) == HttpsScheme \o h \o ApiSuffix

\* The status test of _req with the boundary status 400 let through.
ReqIsErrorAbove(status) == status > 400

\* The status test of _req.
ReqIsError(status) == status >= 400

\* `details` of _req: the decoded body when it parses, else the body text.
ReqDetailsOf(j, text) == IF j.ok THEN Str(j.v) ELSE text

ReqDetails(resp) == ReqDetailsOf(JsonLoads(resp.text), resp.text)

\* The message of the RuntimeError _req raises.
ReqErrorMessage(method, path, resp) ==
    method \o Space \o path \o FailedText \o IntStr(resp.status) \o Space \o ReqDetails(resp)

\* Whether _req decodes the body: `if r.text.strip()`.
ReqHasBody(text) == Strip(text) # <<>>

\* return r.json()
ReqJson(j) == IF j.ok THEN [ok |-> TRUE, v |-> j.v] ELSE Raise("JSONDecodeError", <<>>)

\* _req after the response arrived: the decoded body, {} for a blank body, or
\* an exception.
Req(method, path, resp) ==
    IF ReqIsError(resp.status) THEN Raise("RuntimeError", ReqErrorMessage(method, path, resp))
    ELSE IF ReqHasBody(resp.text) THEN ReqJson(JsonLoads(resp.text))
    ELSE [ok |-> TRUE, v |-> PyDict(<<>>)]

\* .get("href") on the value of "next".
NextLinkHref(n) ==
    IF ~IsDict(n) THEN Raise("AttributeError", <<>>)
    ELSE [ok |-> TRUE, v |-> DictGet(n.kv, KeyHref, PyNone)]

\* .get("next", {}) on the value of "_links".
NextLinkNext(l) ==
    IF ~IsDict(l) THEN Raise("AttributeError", <<>>)
    ELSE NextLinkHref(DictGet(l.kv, KeyNext, PyDict(<<>>)))

\* next_link of _paginate: resp.get("_links", {}).get("next", {}).get("href").
NextLink(resp) == NextLinkNext(DictGet(resp.kv, KeyLinks, PyDict(<<>>)))

\* k, v = kv.split("=", 1); new_params[k] = v
QuerySet(acc, kv) == DictSet(acc, kv[1], kv[2])

\* new_params of _paginate: the k=v components of the query string, as a dict.
RECURSIVE QueryDict(_, _)
QueryDict(kvs, acc) ==
    IF kvs = <<>> THEN acc
    ELSE IF Contains(Head(kvs), EqualsSign)
         THEN QueryDict(Tail(kvs), QuerySet(acc, Split1(Head(kvs), EqualsSign)))
         ELSE QueryDict(Tail(kvs), acc)

\* The path of the follow-up request: f"/{path_seg}".
NextPath(path_seg) == Slash \o path_seg

\* path and query from path_only.partition("?").
FollowParts(items, pq) ==
    StepNext(items, <<>>, NextPath(pq[1]),
             IF pq[3] # <<>> THEN QueryDict(Split(pq[3], Ampersand), <<>>) ELSE <<>>)

\* path_only = next_link.split("/api", 1)[1]: an IndexError when the
\* reference holds no "/api".
FollowSplit(items, parts) ==
    IF Len(parts) < 2 THEN StepRaise(items, "IndexError", <<>>)
    ELSE FollowParts(items, Partition(parts[2], QuestionMark))

\* The (path, query) _paginate follows a continuation reference (a str) with.
FollowLink(items, next_link) == FollowSplit(items, Split1(next_link, ApiSuffix))

\* `if not next_link: break` and the rest of the loop body.
PaginateLoop(items, link) ==
    IF ~link.ok THEN StepRaise(items, link.exc, link.msg)
    ELSE IF ~Truthy(link.v) THEN StepReturn(items)
    ELSE IF link.v.t # "str" THEN StepRaise(items, "AttributeError", <<>>)
    ELSE FollowLink(items, link.v.s)

\* items.extend(records), then next_link.
PaginateLinks(resp, ext) ==
    IF ~ext.ok THEN StepRaise(ext.items, "TypeError", <<>>)
    ELSE PaginateLoop(ext.items, NextLink(resp))

\* records = resp.get("records", []) on the outcome of _req.
PaginateExtend(items, r) ==
    IF ~r.ok THEN StepRaise(items, r.exc, r.msg)
    ELSE IF ~IsDict(r.v) THEN StepRaise(items, "AttributeError", <<>>)
    ELSE PaginateLinks(r.v, Extend(items, DictGet(r.v.kv, KeyRecords, PyList(<<>>))))

\* _paginate from the arrival of a response to its next request or its end.
PaginateStep(path, items, resp) == PaginateExtend(items, Req(MethodGet, path, resp))

(***************************************************************************)
(* lun/del.py and lunmap/del.py: get_lun, the prompt, del_lun              *)
(***************************************************************************)

\* "DELETE"
MethodDelete == <<"D", "E", "L", "E", "T", "E">>

\* "/storage/luns?uuid="
LunsUuidQuery == <<"/", "s", "t", "o", "r", "a", "g", "e", "/", "l", "u", "n", "s", "?", "u", "u", "i", "d", "=">>

\* "lun.name"
KeyLunName == <<"l", "u", "n", ".", "n", "a", "m", "e">>

\* "igroup.name"
KeyIgroupName == <<"i", "g", "r", "o", "u", "p", ".", "n", "a", "m", "e">>

\* "svm.name,lun.name,lun.node.name,igroup.name,igroup.os_type,igroup.protocol,logical_unit_number"
LunMapFields == <<"s", "v", "m", ".", "n", "a", "m", "e", ",", "l", "u", "n", ".", "n", "a", "m", "e", ",", "l", "u", "n", ".", "n", "o", "d", "e", ".", "n", "a", "m", "e", ",", "i", "g", "r", "o", "u", "p", ".", "n", "a", "m", "e", ",", "i", "g", "r", "o", "u", "p", ".", "o", "s", "_", "t", "y", "p", "e", ",", "i", "g", "r", "o", "u", "p", ".", "p", "r", "o", "t", "o", "c", "o", "l", ",", "l", "o", "g", "i", "c", "a", "l", "_", "u", "n", "i", "t", "_", "n", "u", "m", "b", "e", "r">>

\* "yes"
Yes == <<"y", "e", "s">>

\* "ERROR "
ErrorWord == <<"E", "R", "R", "O", "R", " ">>

\* " : "
ColonSep == <<" ", ":", " ">>

\* "svm"
KeySvm == <<"s", "v", "m">>

\* "lun"
KeyLun == <<"l", "u", "n">>

\* "igroup"
KeyIgroup == <<"i", "g", "r", "o", "u", "p">>

\* "node"
KeyNode == <<"n", "o", "d", "e">>

\* str.lower() on one character and on a text.
LowerChar(c) ==
    CASE c = "Y" -> "y"
      [] c = "E" -> "e"
      [] c = "S" -> "s"
      [] c = "N" -> "n"
      [] c = "O" -> "o"
      [] OTHER   -> c

Lower(s) == [i \in 1..Len(s) |-> LowerChar(s[i])]

\* The test on the answer with an answer that begins with "y" let through.
ConfirmedInitial(prompt) == prompt # <<>> /\ LowerChar(prompt[1]) = "y"

\* The test both delete scripts make on the operator's answer.
Confirmed(prompt) == Lower(prompt) = Yes

\* params.setdefault("fields", ...) of lunmap/del.py get_lun: the caller's dict
\* is changed in place.
SetDefaultFields(params) ==
    IF HasKey(params, KeyFields) THEN params ELSE Append(params, <<KeyFields, LunMapFields>>)

\* The params dict main of lunmap/del.py builds.
LunMapDeleteParams(lun, igroup) == <<<<KeyLunName, lun>>, <<KeyIgroupName, igroup>>>>

\* The GET of get_lun in lun/del.py.
LunLookupRequest(base, uuid) == Request(MethodGet, base \o LunsUuidQuery \o uuid, <<>>)

\* The GET of get_lun in lunmap/del.py, sent with the dict after setdefault.
LunMapLookupRequest(base, params) == Request(MethodGet, base \o LunMapsPath, params)

\* The DELETE of del_lun in lun/del.py.
LunDeleteRequest(base, uuid) == Request(MethodDelete, base \o LunsPath \o Slash \o uuid, <<>>)

\* The DELETE of del_lun in lunmap/del.py.
LunMapDeleteRequest(base, params) == Request(MethodDelete, base \o LunMapsPath, params)

\* The line get_lun and del_lun print for an error status.
DelErrorMessage(resp) == ErrorWord \o IntStr(resp.status) \o ColonSep \o resp.text

\* What get_lun ends in: "records" with the value of resp.json().get("records",
\* []), "exit" after an error status, "raise" for an exception.
Lookup(kind, records, msg) == [kind |-> kind, records |-> records, msg |-> msg]

GetLunJson(j) ==
    IF ~j.ok \/ ~IsDict(j.v) THEN Lookup("raise", PyNone, <<>>)
    ELSE Lookup("records", DictGet(j.v.kv, KeyRecords, PyList(<<>>)), <<>>)

GetLun(resp) ==
    IF resp.status >= 400 THEN Lookup("exit", PyNone, DelErrorMessage(resp))
    ELSE GetLunJson(JsonLoads(resp.text))

\* d.get(k, {}) yields a dict, so that the .get chained on it does not raise.
GetsDict(rec, k) == IsDict(DictGet(rec.kv, k, PyDict(<<>>)))

\* Whether the `if records:` block of main prints records[0] without raising.
FirstRecord(records) ==
    CASE records.t = "list" -> records.xs[1]
      [] records.t = "str"  -> PyStr(<<records.s[1]>>)
      [] OTHER              -> PyNone

LunDisplayOk(rec) == IsDict(rec)

LunMapDisplayOk(rec) ==
    /\ IsDict(rec)
    /\ GetsDict(rec, KeySvm) /\ GetsDict(rec, KeyLun) /\ GetsDict(rec, KeyIgroup)
    /\ GetsDict(DictGet(rec.kv, KeyLun, PyDict(<<>>)), KeyNode)

DisplayOk(p, records) ==
    IF p = "lun/del.py" THEN LunDisplayOk(FirstRecord(records))
    ELSE LunMapDisplayOk(FirstRecord(records))

(***************************************************************************)
(* run.py: lun_delete_by_uuid and lunmap_delete                            *)
(***************************************************************************)

\* The path lun_delete_by_uuid hands to _req.
RunLunDeletePath(uuid) == LunsUuidQuery \o uuid

\* The params lunmap_delete hands to _req.
RunLunMapDeleteParams(lun, igroup) == <<<<KeyLunName, lun>>, <<KeyIgroupName, igroup>>>>

(***************************************************************************)
(* The expressions of the renderers: .get, slices and format fields.  An   *)
(* expression yields a value or, in place of it, the exception it raised;  *)
(* an operation on a raised exception yields that exception.               *)
(***************************************************************************)
PyErr(exc) == [t |-> "error", exc |-> exc]

IsErr(v) == v.t = "error"

EmptyDict == PyDict(<<>>)
EmptyStr == PyStr(<<>>)
EmptyList == PyList(<<>>)

\* v.get(k, default): only a dict has .get.
Get(v, k, default) ==
    CASE v.t = "error" -> v
      [] v.t = "dict"  -> DictGet(v.kv, k, default)
      [] OTHER         -> PyErr("AttributeError")

\* v[:n]: a str and a list are sliced, any other value is not subscriptable.
Slice(v, n) ==
    CASE v.t = "error" -> v
      [] v.t = "str"   -> PyStr(SubSeq(v.s, 1, IF Len(v.s) < n THEN Len(v.s) ELSE n))
      [] v.t = "list"  -> PyList(SubSeq(v.xs, 1, IF Len(v.xs) < n THEN Len(v.xs) ELSE n))
      [] OTHER         -> PyErr("TypeError")

\* c * n
Repeat(c, n) == [i \in 1..n |-> c]

\* str.ljust(w) and str.rjust(w): padded with spaces, never cut.
LJust(s, w) == IF Len(s) >= w THEN s ELSE s \o Repeat(" ", w - Len(s))
RJust(s, w) == IF Len(s) >= w THEN s ELSE Repeat(" ", w - Len(s)) \o s

\* The replacement field {v:w}: a str is padded on the right, an int (and a
\* bool, which formats as the int it is) on the left; None, a list and a
\* dict refuse a format string.
Field(v, w) ==
    CASE v.t = "error" -> v
      [] v.t = "str"   -> PyStr(LJust(v.s, w))
      [] v.t = "int"   -> PyStr(RJust(IntStr(v.n), w))
      [] v.t = "bool"  -> PyStr(RJust(IF v.b THEN <<"1">> ELSE <<"0">>, w))
      [] OTHER         -> PyErr("TypeError")

\* The replacement field {v} without a format string: str(v).
Plain(v) == IF v.t = "error" THEN v ELSE PyStr(Str(v))

\* An f-string made of fields with `sep` between them and `tail` after the
\* last one: the first exception among the fields, else the text.
FirstErr(cells) == cells[CHOOSE i \in 1..Len(cells) :
                            IsErr(cells[i]) /\ \A j \in 1..(i - 1) : ~IsErr(cells[j])]

FString(cells, sep, tail) ==
    IF \E i \in 1..Len(cells) : IsErr(cells[i]) THEN FirstErr(cells)
    ELSE PyStr(Join(sep, [i \in 1..Len(cells) |-> cells[i].s]) \o tail)

\* What a renderer leaves behind: the lines it printed, and how it ended:
\* "return", "exit" (sys.exit(0)) or "raise".
Rendered(ls, how, exc) == [lines |-> ls, how |-> how, exc |-> exc]

\* The rows of a table printed one after the other until one raises.
RECURSIVE PrintRows(_, _)
PrintRows(rows, printed) ==
    IF rows = <<>> THEN Rendered(printed, "return", "")
    ELSE IF IsErr(Head(rows)) THEN Rendered(printed, "raise", Head(rows).exc)
    ELSE PrintRows(Tail(rows), Append(printed, Head(rows).s))

\* A renderer's lines after its rows: `last` is printed when no row raised.
ThenPrint(r, last) ==
    IF r.how = "return" THEN Rendered(r.lines \o last, "return", "") ELSE r

(***************************************************************************)
(* utils/utils.py: from_bytes, lunmap_display_summary, lun_list_summary    *)
(***************************************************************************)
\* "name"
KeyName == <<"n", "a", "m", "e">>

\* "uuid"
KeyUuid == <<"u", "u", "i", "d">>

\* "os_type"
KeyOsType == <<"o", "s", "_", "t", "y", "p", "e">>

\* "protocol"
KeyProtocol == <<"p", "r", "o", "t", "o", "c", "o", "l">>

\* "logical_unit_number"
KeyLogicalUnitNumber ==
    <<"l", "o", "g", "i", "c", "a", "l", "_", "u", "n", "i", "t", "_", "n", "u", "m", "b", "e",
      "r">>

\* "status"
KeyStatus == <<"s", "t", "a", "t", "u", "s">>

\* "state"
KeyState == <<"s", "t", "a", "t", "e">>

\* "location"
KeyLocation == <<"l", "o", "c", "a", "t", "i", "o", "n">>

\* "volume"
KeyVolume == <<"v", "o", "l", "u", "m", "e">>

\* "space"
KeySpace == <<"s", "p", "a", "c", "e">>

\* "size"
KeySize == <<"s", "i", "z", "e">>

\* "initiators"
KeyInitiators == <<"i", "n", "i", "t", "i", "a", "t", "o", "r", "s">>

\* "parent_igroups"
KeyParentIgroups == <<"p", "a", "r", "e", "n", "t", "_", "i", "g", "r", "o", "u", "p", "s">>

\* "lun_maps"
KeyLunMaps == <<"l", "u", "n", "_", "m", "a", "p", "s">>

\* "wwpn"
KeyWwpn == <<"w", "w", "p", "n">>

\* "iqn"
KeyIqn == <<"i", "q", "n">>

\* "num_records"
KeyNumRecords == <<"n", "u", "m", "_", "r", "e", "c", "o", "r", "d", "s">>

\* "KMGTP"
UnitLetters == <<"K", "M", "G", "T", "P">>

\* "Vserver"
HeadVserver == <<"V", "s", "e", "r", "v", "e", "r">>

\* "PATH"
HeadPath == <<"P", "A", "T", "H">>

\* "UUID"
HeadUuid == <<"U", "U", "I", "D">>

\* "NODE"
HeadNode == <<"N", "O", "D", "E">>

\* "Igroup"
HeadIgroup == <<"I", "g", "r", "o", "u", "p">>

\* "Igroup-UUID"
HeadIgroupUuid == <<"I", "g", "r", "o", "u", "p", "-", "U", "U", "I", "D">>

\* "OS_TYPE"
HeadOsType == <<"O", "S", "_", "T", "Y", "P", "E">>

\* "PROTOCOL"
HeadProtocol == <<"P", "R", "O", "T", "O", "C", "O", "L">>

\* "LUNID"
HeadLunId == <<"L", "U", "N", "I", "D">>

\* "NAME"
HeadName == <<"N", "A", "M", "E">>

\* "   STATE"
HeadState == <<" ", " ", " ", "S", "T", "A", "T", "E">>

\* "SVM"
HeadSvm == <<"S", "V", "M">>

\* "VOL"
HeadVol == <<"V", "O", "L">>

\* "SIZE(B)"
HeadSize == <<"S", "I", "Z", "E", "(", "B", ")">>

\* "VSERVER"
HeadVserverUpper == <<"V", "S", "E", "R", "V", "E", "R">>

\* "IGROUP"
HeadIgroupUpper == <<"I", "G", "R", "O", "U", "P">>

\* "INITIATORS"
HeadInitiators == <<"I", "N", "I", "T", "I", "A", "T", "O", "R", "S">>

\* "PARENT_IGROUPS"
HeadParentIgroups == <<"P", "A", "R", "E", "N", "T", "_", "I", "G", "R", "O", "U", "P", "S">>

\* "MAPS"
HeadMaps == <<"M", "A", "P", "S">>

\* "LUN UUID"
HeadLunUuid == <<"L", "U", "N", " ", "U", "U", "I", "D">>

\* "Igroup UUID"
HeadIgroupUuidSpaced == <<"I", "g", "r", "o", "u", "p", " ", "U", "U", "I", "D">>

\* "*                                                 *"
NoticeBlank ==
    <<"*", " ", " ", " ", " ", " ", " ", " ", " ", " ", " ", " ", " ", " ", " ", " ", " ", " ",
      " ", " ", " ", " ", " ", " ", " ", " ", " ", " ", " ", " ", " ", " ", " ", " ", " ", " ",
      " ", " ", " ", " ", " ", " ", " ", " ", " ", " ", " ", " ", " ", " ", "*">>

\* "*   No Igroups found matching the criteria.      *"
NoticeNoIgroups ==
    <<"*", " ", " ", " ", "N", "o", " ", "I", "g", "r", "o", "u", "p", "s", " ", "f", "o", "u",
      "n", "d", " ", "m", "a", "t", "c", "h", "i", "n", "g", " ", "t", "h", "e", " ", "c", "r",
      "i", "t", "e", "r", "i", "a", ".", " ", " ", " ", " ", " ", " ", "*">>

\* "*   No LUN mappings found matching the criteria.  *"
NoticeNoLunMaps ==
    <<"*", " ", " ", " ", "N", "o", " ", "L", "U", "N", " ", "m", "a", "p", "p", "i", "n", "g",
      "s", " ", "f", "o", "u", "n", "d", " ", "m", "a", "t", "c", "h", "i", "n", "g", " ", "t",
      "h", "e", " ", "c", "r", "i", "t", "e", "r", "i", "a", ".", " ", " ", "*">>

\* "Retrieved "
RetrievedWord == <<"R", "e", "t", "r", "i", "e", "v", "e", "d", " ">>

\* " igroups record(s)."
IgroupsRecordsWord ==
    <<" ", "i", "g", "r", "o", "u", "p", "s", " ", "r", "e", "c", "o", "r", "d", "(", "s", ")",
      ".">>

\* " LUN record(s)."
LunRecordsWord == <<" ", "L", "U", "N", " ", "r", "e", "c", "o", "r", "d", "(", "s", ")", ".">>

\* The interpreters the tool runs on: int has the method is_integer from
\* Python 3.12 on, and not before.
Pythons == {"3.11", "3.12"}

IntHasIsInteger(py) == py = "3.12"

\* The number of divisions by 1024 the loop of from_bytes makes before it
\* returns: it stops below 1024, or at the last unit.
RECURSIVE UnitIndex(_, _)
UnitIndex(n, j) == IF n < 1024 \/ j = 5 THEN j ELSE UnitIndex(n \div 1024, j + 1)

RECURSIVE Pow1024(_)
Pow1024(j) == IF j = 0 THEN 1 ELSE 1024 * Pow1024(j - 1)

\* The unit '', 'K', 'M', 'G', 'T', 'P' of index j.
UnitOf(j) == IF j = 0 THEN <<>> ELSE <<UnitLetters[j]>>

\* f"{x:.1f}" of x = n / d: the tenths rounded to the nearest, a tie to the
\* even one.
RoundedTenths(n, d) ==
    IF 2 * ((10 * n) % d) > d \/ (2 * ((10 * n) % d) = d /\ ((10 * n) \div d) % 2 = 1)
    THEN (10 * n) \div d + 1
    ELSE (10 * n) \div d

OneDecimal(n, d) ==
    IntStr(RoundedTenths(n, d) \div 10) \o <<".">> \o IntStr(RoundedTenths(n, d) % 10)

\* from_bytes on an int n that the loop divided j times: while n is still
\* the int (j = 0) n.is_integer() exists on Python 3.12 and later only;
\* after a division n is a float.
FromBytesInt(n, j, py) ==
    IF j = 0
    THEN IF IntHasIsInteger(py) THEN PyStr(IntStr(n)) ELSE PyErr("AttributeError")
    ELSE IF n % Pow1024(j) = 0
         THEN PyStr(IntStr(n \div Pow1024(j)) \o UnitOf(j))
         ELSE PyStr(OneDecimal(n, Pow1024(j)) \o UnitOf(j))

\* from_bytes(n)
FromBytes(v, py) ==
    CASE v.t = "error" -> v
      [] v.t = "none"  -> EmptyStr
      [] v.t = "int"   -> FromBytesInt(v.n, UnitIndex(v.n, 0), py)
      [] v.t = "bool"  -> FromBytesInt(IF v.b THEN 1 ELSE 0, 0, py)
      [] OTHER         -> PyErr("TypeError")

\* One character that is written here by its code point: KELVIN SIGN, which
\* re.I lets [KMGTP] match and str.upper() leaves as it is, and
\* ARABIC-INDIC DIGIT THREE, which \d matches and int() reads as 3.
KelvinSign == "U+212A"
ArabicThree == "U+0663"

\* \d of a str pattern: a decimal digit of any script.
IsDecimalDigit(c) == IsDigit(c) \/ c = ArabicThree

\* The value int() gives a decimal digit.
DecimalDigitVal(c) == IF c = ArabicThree THEN 3 ELSE DigitVal(c)

\* int(ds) of a run of decimal digits.
RECURSIVE IntOfDigits(_)
IntOfDigits(ds) ==
    IF ds = <<>> THEN 0
    ELSE 10 * IntOfDigits(SubSeq(ds, 1, Len(ds) - 1)) + DecimalDigitVal(ds[Len(ds)])

\* [KMGTP] under re.I: the letters in either case, and the characters that
\* case-fold to one of them.
MatchesSuffixClass(c) ==
    c \in {"K", "M", "G", "T", "P", "k", "m", "g", "t", "p", KelvinSign}

\* c.upper()
UpperChar(c) ==
    CASE c = "k" -> "K"
      [] c = "m" -> "M"
      [] c = "g" -> "G"
      [] c = "t" -> "T"
      [] c = "p" -> "P"
      [] OTHER   -> c

\* The end of the run of \s from position i on.
RECURSIVE SpaceEnd(_, _)
SpaceEnd(s, i) == IF i <= Len(s) /\ IsSpace(s[i]) THEN SpaceEnd(s, i + 1) ELSE i

\* The end of the run of \d from position i on.
RECURSIVE DecimalEnd(_, _)
DecimalEnd(s, i) == IF i <= Len(s) /\ IsDecimalDigit(s[i]) THEN DecimalEnd(s, i + 1) ELSE i

\* The end of ([KMGTP]?) from position i on.
SuffixEnd(s, i) == IF i <= Len(s) /\ MatchesSuffixClass(s[i]) THEN i + 1 ELSE i

\* re.fullmatch(r"\s*(\d+)([KMGTP]?)\s*", s, re.I), the three classes being
\* disjoint: where the digits start (a), end (b), and where the suffix ends
\* (c); ok when there is a digit and the trailing whitespace reaches the end.
SizeMatchAt(s, a, b, c) ==
    [ok |-> b > a /\ SpaceEnd(s, c) > Len(s),
     digits |-> SubSeq(s, a, b - 1),
     suf |-> SubSeq(s, b, c - 1)]

SizeMatchFrom(s, a, b) == SizeMatchAt(s, a, b, SuffixEnd(s, b))

SizeMatch(s) == SizeMatchFrom(s, SpaceEnd(s, 1), DecimalEnd(s, SpaceEnd(s, 1)))

\* The keys of the multiplier dict, in the order of their exponents 0..5.
MultKeys == <<<<>>, <<"K">>, <<"M">>, <<"G">>, <<"T">>, <<"P">>>>

\* A byte count n * 1024**e, held by its two factors.
Bytes(n, e) == [ok |-> TRUE, n |-> n, e |-> e]

\* n * {...}[suf]: KeyError when suf is not a key.
TimesMult(n, suf) ==
    IF \E e \in 1..Len(MultKeys) : MultKeys[e] = suf
    THEN Bytes(n, (CHOOSE e \in 1..Len(MultKeys) : MultKeys[e] = suf) - 1)
    ELSE Raise("KeyError", Repr(PyStr(suf)))

\* "Invalid size format (e.g., 100G, 20M, 4096)"
InvalidSizeFormat ==
    <<"I", "n", "v", "a", "l", "i", "d", " ", "s", "i", "z", "e", " ", "f", "o", "r", "m", "a",
      "t", " ", "(", "e", ".", "g", ".", ",", " ", "1", "0", "0", "G", ",", " ", "2", "0", "M",
      ",", " ", "4", "0", "9", "6", ")">>

ToBytesOf(m) ==
    IF ~m.ok THEN Raise("ValueError", InvalidSizeFormat)
    ELSE TimesMult(IntOfDigits(m.digits), [i \in 1..Len(m.suf) |-> UpperChar(m.suf[i])])

\* to_bytes(s) of utils.py; the one of lun/create.py differs in the text of
\* its ValueError only.
ToBytes(s) == ToBytesOf(SizeMatch(s))

\* from_bytes once the loop has divided: x = n / 1024**d, a float, with the
\* unit of index j.  x.is_integer() chooses between the two formats.
FromBytesFloat(n, d, j) ==
    IF n % Pow1024(d) = 0
    THEN PyStr(IntStr(n \div Pow1024(d)) \o UnitOf(j))
    ELSE PyStr(OneDecimal(n, Pow1024(d)) \o UnitOf(j))

\* from_bytes(n * 1024**e) for an int held by its two factors, 0 <= e <= 5:
\* the loop divides e times and then as it does for n.  An int below 1024 is
\* never divided and meets n.is_integer() as an int.
FromBytesScaled(n, e, py) ==
    IF n = 0 \/ UnitIndex(n, e) = 0 THEN FromBytesInt(n, 0, py)
    ELSE FromBytesFloat(n, UnitIndex(n, e) - e, UnitIndex(n, e))

\* "-" * n and "---" * n
Rule(n) == Repeat("-", n)

\* The header line of lunmap_display_summary.
LunMapHeader ==
    FString(<<Field(PyStr(HeadVserver), 15), Field(PyStr(HeadPath), 35),
              Field(PyStr(HeadUuid), 40), Field(PyStr(HeadNode), 15),
              Field(PyStr(HeadIgroup), 15), Field(PyStr(HeadIgroupUuid), 40),
              Field(PyStr(HeadOsType), 10), Field(PyStr(HeadProtocol), 10),
              Field(PyStr(HeadLunId), 5)>>, Space, <<>>).s

\* record.get(k1, {}).get(k2, '')
Get2(rec, k1, k2) == Get(Get(rec, k1, EmptyDict), k2, EmptyStr)

\* record.get(k1, {}).get(k2, {}).get(k3, '')
Get3(rec, k1, k2, k3) == Get(Get(Get(rec, k1, EmptyDict), k2, EmptyDict), k3, EmptyStr)

\* The line lunmap_display_summary prints for one record.
LunMapRow(rec) ==
    FString(<<Field(Get2(rec, KeySvm, KeyName), 15),
              Field(Get2(rec, KeyLun, KeyName), 35),
              Field(Get2(rec, KeyLun, KeyUuid), 40),
              Field(Get3(rec, KeyLun, KeyNode, KeyName), 15),
              Field(Get2(rec, KeyIgroup, KeyName), 15),
              Field(Get2(rec, KeyIgroup, KeyUuid), 40),
              Field(Get2(rec, KeyIgroup, KeyOsType), 10),
              Field(Get2(rec, KeyIgroup, KeyProtocol), 10),
              Field(Get(rec, KeyLogicalUnitNumber, EmptyStr), 3)>>, Space, Space)

\* lunmap_display_summary(records)
LunMapDisplaySummary(records) ==
    ThenPrint(PrintRows([i \in 1..Len(records) |-> LunMapRow(records[i])],
                        <<LunMapHeader, Rule(200)>>),
              <<Rule(200)>>)

\* The header line of lun_list_summary.
LunListHeader ==
    FString(<<Field(PyStr(HeadName), 35), Field(PyStr(HeadUuid), 36),
              Field(PyStr(HeadState), 10), Field(PyStr(HeadSvm), 10),
              Field(PyStr(HeadVol), 12), Plain(PyStr(HeadSize))>>, Space, <<>>).s

\* The line lun_list_summary prints for one record.
LunListRow(rec, py) ==
    FString(<<Field(Slice(Get(rec, KeyName, EmptyStr), 35), 35),
              Field(Slice(Get(rec, KeyUuid, EmptyStr), 36), 38),
              Field(Slice(Get2(rec, KeyStatus, KeyState), 8), 8),
              Field(Slice(Get2(rec, KeySvm, KeyName), 10), 10),
              Field(Slice(Get3(rec, KeyLocation, KeyVolume, KeyName), 12), 12),
              Plain(FromBytes(Get2(rec, KeySpace, KeySize), py))>>, Space, <<>>)

\* lun_list_summary(records): nothing at all is printed for an empty list.
LunListSummary(records, py) ==
    IF records = <<>> THEN Rendered(<<>>, "return", "")
    ELSE ThenPrint(PrintRows([i \in 1..Len(records) |-> LunListRow(records[i], py)],
                             <<Rule(120), LunListHeader, Rule(120)>>),
                   <<Rule(120)>>)

(***************************************************************************)
(* utils/utils.py and igroup/list.py: wrap_text                            *)
(***************************************************************************)
CommaSep == <<",", " ">>
Dash == <<"-">>

\* str.rstrip(", "): trailing characters that are a comma or a space removed.
RECURSIVE RStripCommaSpace(_)
RStripCommaSpace(s) ==
    IF s # <<>> /\ s[Len(s)] \in {",", " "}
    THEN RStripCommaSpace(SubSeq(s, 1, Len(s) - 1)) ELSE s

\* The width test of wrap_text: the line in progress, the part and the
\* separator that follows it do not fit.
WrapOverflows(current, part, w) == Len(current) + Len(part) + 2 > w

\* The loop of wrap_text over the parts, and the flush after it.
RECURSIVE WrapLoop(_, _, _, _)
WrapLoop(parts, w, ls, current) ==
    IF parts = <<>>
    THEN IF current # <<>> THEN Append(ls, RStripCommaSpace(current)) ELSE ls
    ELSE IF WrapOverflows(current, Head(parts), w)
         THEN WrapLoop(Tail(parts), w, Append(ls, RStripCommaSpace(current)),
                       Head(parts) \o CommaSep)
         ELSE WrapLoop(Tail(parts), w, ls, current \o Head(parts) \o CommaSep)

\* wrap_text(text, width)
WrapText(t, w) ==
    IF t = Dash THEN <<t>> ELSE WrapLoop(Split(t, CommaSep), w, <<>>, <<>>)

(***************************************************************************)
(* utils/utils.py igroup_display_summary, which igroup/list.py repeats as  *)
(* display_igroups: pick, join_names, fmt_lun_maps, fmt_parent_igroups and *)
(* the rows of the table.                                                  *)
(***************************************************************************)

\* One step of pick: cur.get(part, None) on a dict, None on anything else.
PickStep(cur, part) == IF IsDict(cur) THEN DictGet(cur.kv, part, PyNone) ELSE PyNone

\* pick(d, "k1.k2", default): the default as soon as a step yields None.
Pick2(d, k1, k2, default) ==
    IF PickStep(d, k1).t = "none" THEN default
    ELSE IF PickStep(PickStep(d, k1), k2).t = "none" THEN default
    ELSE PickStep(PickStep(d, k1), k2)

\* sep.join(vals): a TypeError when an element is not a str.
JoinVals(vals) ==
    IF \E i \in 1..Len(vals) : vals[i].t # "str" THEN PyErr("TypeError")
    ELSE PyStr(Join(CommaSep, [i \in 1..Len(vals) |-> vals[i].s]))

\* ", ".join(vals) if vals else "-"
JoinOrDash(vals) == IF vals = <<>> THEN PyStr(Dash) ELSE JoinVals(vals)

\* The inner loop of join_names on one dict: the first of the keys name,
\* wwpn, iqn whose value is truthy, as a list of no or one value.
FirstName(it) ==
    IF Truthy(DictGet(it.kv, KeyName, PyNone)) THEN <<DictGet(it.kv, KeyName, PyNone)>>
    ELSE IF Truthy(DictGet(it.kv, KeyWwpn, PyNone)) THEN <<DictGet(it.kv, KeyWwpn, PyNone)>>
    ELSE IF Truthy(DictGet(it.kv, KeyIqn, PyNone)) THEN <<DictGet(it.kv, KeyIqn, PyNone)>>
    ELSE <<>>

RECURSIVE NameVals(_)
NameVals(xs) ==
    IF xs = <<>> THEN <<>>
    ELSE (IF IsDict(Head(xs)) THEN FirstName(Head(xs)) ELSE <<>>) \o NameVals(Tail(xs))

\* join_names(items, "name", "wwpn", "iqn")
JoinNames(its) == IF its.t # "list" THEN PyStr(Dash) ELSE JoinOrDash(NameVals(its.xs))

\* The names fmt_parent_igroups keeps.
RECURSIVE ParentNames(_)
ParentNames(xs) ==
    IF xs = <<>> THEN <<>>
    ELSE (IF IsDict(Head(xs)) /\ Truthy(DictGet(Head(xs).kv, KeyName, PyNone))
          THEN <<DictGet(Head(xs).kv, KeyName, PyNone)>> ELSE <<>>)
         \o ParentNames(Tail(xs))

\* fmt_parent_igroups(parents)
FmtParentIgroups(parents) ==
    IF parents.t # "list" THEN PyStr(Dash) ELSE JoinOrDash(ParentNames(parents.xs))

\* `lun` of fmt_lun_maps: m.get("lun", {}) when that is a dict, else {}.
MapLun(m) ==
    IF IsDict(DictGet(m.kv, KeyLun, EmptyDict)) THEN DictGet(m.kv, KeyLun, EmptyDict)
    ELSE EmptyDict

\* What fmt_lun_maps appends for one dict, from its lnum and lpath.
MapEntry(lnum, lpath) ==
    IF ~(Truthy(lpath) \/ lnum.t # "none") THEN <<>>
    ELSE IF lnum.t # "none" /\ Truthy(lpath)
         THEN <<PyStr(Str(lnum) \o <<":">> \o Str(lpath))>>
    ELSE IF Truthy(lpath) THEN <<lpath>>
    ELSE <<PyStr(Str(lnum))>>

RECURSIVE MapEntries(_)
MapEntries(xs) ==
    IF xs = <<>> THEN <<>>
    ELSE (IF IsDict(Head(xs))
          THEN MapEntry(DictGet(Head(xs).kv, KeyLogicalUnitNumber, PyNone),
                        DictGet(MapLun(Head(xs)).kv, KeyName, EmptyStr))
          ELSE <<>>)
         \o MapEntries(Tail(xs))

\* fmt_lun_maps(lun_maps)
FmtLunMaps(maps) == IF maps.t # "list" THEN PyStr(Dash) ELSE JoinOrDash(MapEntries(maps.xs))

\* The header line of the igroup table.
IgroupHeader ==
    FString(<<Field(PyStr(HeadVserverUpper), 35), Field(PyStr(HeadIgroupUpper), 20),
              Field(PyStr(HeadProtocol), 9), Field(PyStr(HeadOsType), 10),
              Field(PyStr(HeadInitiators), 45), Field(PyStr(HeadParentIgroups), 25),
              Plain(PyStr(HeadMaps))>>, Space, <<>>).s

\* Max with the smaller of the two taken.
MaxSwapped(a, b) == IF a >= b THEN b ELSE a

\* max(a, b)
Max(a, b) == IF a >= b THEN a ELSE b

\* The i-th line of a wrapped column (i counted from 1), "" past its end.
LineAt(ls, i) == IF i <= Len(ls) THEN PyStr(ls[i]) ELSE EmptyStr

\* A single-valued column on the i-th line of a record: the value on the
\* first line, "" on the others.
FirstLineOnly(v, i) == IF i = 1 THEN v ELSE EmptyStr

\* The lines printed for one record whose columns are computed.
IgroupLines(vserver, igroup, protocol, osType, initLines, parents, mapLines) ==
    [i \in 1..Max(Len(initLines), Len(mapLines)) |->
        FString(<<Field(FirstLineOnly(vserver, i), 35), Field(FirstLineOnly(igroup, i), 20),
                  Field(FirstLineOnly(protocol, i), 9), Field(FirstLineOnly(osType, i), 10),
                  Field(LineAt(initLines, i), 45), Field(FirstLineOnly(parents, i), 25),
                  Plain(LineAt(mapLines, i))>>, Space, <<>>)]

\* One turn of the loop over the records, the joined columns given: a join
\* that raised ends the turn before a line is printed.
IgroupRowsOf(rec, initiators, parents, maps) ==
    IF IsErr(initiators) THEN <<initiators>>
    ELSE IF IsErr(parents) THEN <<parents>>
    ELSE IF IsErr(maps) THEN <<maps>>
    ELSE IgroupLines(Pick2(rec, KeySvm, KeyName, EmptyStr),
                     DictGet(rec.kv, KeyName, EmptyStr),
                     DictGet(rec.kv, KeyProtocol, EmptyStr),
                     DictGet(rec.kv, KeyOsType, EmptyStr),
                     WrapText(initiators.s, 45), parents, WrapText(maps.s, 80))

\* One turn of the loop over the records: a record that is not a dict is
\* passed over.
IgroupRows(rec) ==
    IF ~IsDict(rec) THEN <<>>
    ELSE IgroupRowsOf(rec,
                      JoinNames(DictGet(rec.kv, KeyInitiators, EmptyList)),
                      FmtParentIgroups(DictGet(rec.kv, KeyParentIgroups, EmptyList)),
                      FmtLunMaps(DictGet(rec.kv, KeyLunMaps, EmptyList)))

RECURSIVE IgroupAllRows(_)
IgroupAllRows(records) ==
    IF records = <<>> THEN <<>> ELSE IgroupRows(Head(records)) \o IgroupAllRows(Tail(records))

\* The bordered notice of an empty igroup list.
IgroupNotice == <<Repeat("*", 51), NoticeBlank, NoticeNoIgroups, NoticeBlank, Repeat("*", 51)>>

\* igroup_display_summary(records) and display_igroups(records)
IgroupDisplaySummary(records) ==
    IF Len(records) = 0 THEN Rendered(<<<<>>>> \o IgroupNotice, "exit", "")
    ELSE ThenPrint(PrintRows(IgroupAllRows(records),
                             <<<<>>,
                               RetrievedWord \o IntStr(Len(records)) \o IgroupsRecordsWord,
                               Rule(160), IgroupHeader, Rule(160)>>),
                   <<Rule(160)>>)

(***************************************************************************)
(* lun/list.py: the table main prints after paginate_all                   *)
(***************************************************************************)

\* One step of main's pick: cur.get(part, {}) on a dict, {} on anything else.
LunPickStep(cur, part) == IF IsDict(cur) THEN DictGet(cur.kv, part, EmptyDict) ELSE EmptyDict

\* The end of main's pick: the default in place of {}.
LunPickEnd(cur, default) == IF cur = EmptyDict THEN default ELSE cur

\* pick(rec, "k1.k2", "") and pick(rec, "k1.k2.k3", "") of main.
LunPick2(rec, k1, k2) == LunPickEnd(LunPickStep(LunPickStep(rec, k1), k2), EmptyStr)
LunPick3(rec, k1, k2, k3) ==
    LunPickEnd(LunPickStep(LunPickStep(LunPickStep(rec, k1), k2), k3), EmptyStr)

\* The header line of main's table.
LunMainHeader ==
    FString(<<Field(PyStr(HeadName), 35), Field(PyStr(HeadUuid), 36),
              Field(PyStr(HeadState), 8), Field(PyStr(HeadSvm), 10),
              Field(PyStr(HeadVol), 12), Plain(PyStr(HeadSize))>>, Space, <<>>).s

\* The line main prints for one record: rec.get raises on a record that is
\* not a dict.
LunMainRow(rec) ==
    IF ~IsDict(rec) THEN PyErr("AttributeError")
    ELSE FString(<<Field(Slice(Get(rec, KeyName, EmptyStr), 35), 35),
                   Field(Slice(Get(rec, KeyUuid, EmptyStr), 36), 36),
                   Field(Slice(LunPick2(rec, KeyStatus, KeyState), 8), 8),
                   Field(Slice(LunPick2(rec, KeySvm, KeyName), 10), 10),
                   Field(Slice(LunPick3(rec, KeyLocation, KeyVolume, KeyName), 12), 12),
                   Plain(LunPick2(rec, KeySpace, KeySize))>>, Space, <<>>)

\* main of lun/list.py after paginate_all: the count, and the table when
\* there are records.
LunMainTable(records) ==
    IF records = <<>>
    THEN Rendered(<<RetrievedWord \o <<"0">> \o LunRecordsWord>>, "return", "")
    ELSE ThenPrint(PrintRows([i \in 1..Len(records) |-> LunMainRow(records[i])],
                             <<RetrievedWord \o IntStr(Len(records)) \o LunRecordsWord,
                               Rule(80), LunMainHeader, Rule(80)>>),
                   <<Rule(80)>>)

(***************************************************************************)
(* lunmap/list.py: main, list_lun_maps and display_lunmaps                 *)
(***************************************************************************)
\* "protocols/san/lun-maps"
LunMapsRelPath ==
    <<"p", "r", "o", "t", "o", "c", "o", "l", "s", "/", "s", "a", "n", "/", "l", "u", "n", "-",
      "m", "a", "p", "s">>

\* "ERROR! "
ErrorBang == <<"E", "R", "R", "O", "R", "!", " ">>

\* ": "
StatusSep == <<":", " ">>

\* base as main builds it: f"https://{host}/api/".
LunMapListBase(h) == HttpsScheme \o h \o ApiSuffix \o Slash

\* `if params: params.setdefault("fields", ...)`: an empty dict stays empty.
ListLunMapsParams(params) == IF params # <<>> THEN SetDefaultFields(params) ELSE params

\* The one GET of list_lun_maps.
ListLunMapsRequest(h, params) ==
    Request(MethodGet, LunMapListBase(h) \o LunMapsRelPath, ListLunMapsParams(params))

\* The status test of list_lun_maps.
ListLunMapsIsError(status) == status >= 400

\* The line list_lun_maps prints for an error status.
ListLunMapsErrorMessage(resp) == ErrorBang \o IntStr(resp.status) \o StatusSep \o resp.text

\* v == 0
EqualsZero(v) == (v.t = "int" /\ v.n = 0) \/ (v.t = "bool" /\ ~v.b)

\* v > 0: a bool, or the TypeError of a value that is not a number.
AboveZero(v) ==
    CASE v.t = "int"  -> PyBool(v.n > 0)
      [] v.t = "bool" -> PyBool(v.b)
      [] OTHER        -> PyErr("TypeError")

\* The header and the row of the detailed view.
LunMapDetailHeader ==
    FString(<<Field(PyStr(HeadVserver), 15), Field(PyStr(HeadPath), 35),
              Field(PyStr(HeadNode), 15), Field(PyStr(HeadIgroup), 15),
              Field(PyStr(HeadOsType), 10), Field(PyStr(HeadProtocol), 10),
              Field(PyStr(HeadLunId), 5)>>, Space, <<>>).s

LunMapDetailRow(rec) ==
    FString(<<Field(Get2(rec, KeySvm, KeyName), 15),
              Field(Get2(rec, KeyLun, KeyName), 35),
              Field(Get3(rec, KeyLun, KeyNode, KeyName), 15),
              Field(Get2(rec, KeyIgroup, KeyName), 15),
              Field(Get2(rec, KeyIgroup, KeyOsType), 10),
              Field(Get2(rec, KeyIgroup, KeyProtocol), 10),
              Field(Get(rec, KeyLogicalUnitNumber, EmptyStr), 3)>>, Space, Space)

\* The header and the row of the UUID view.
LunMapUuidHeader ==
    FString(<<Field(PyStr(HeadVserver), 15), Field(PyStr(HeadPath), 35),
              Field(PyStr(HeadLunUuid), 40), Field(PyStr(HeadIgroup), 15),
              Field(PyStr(HeadIgroupUuidSpaced), 40)>>, Space, <<>>).s

LunMapUuidRow(rec) ==
    FString(<<Field(Slice(Get2(rec, KeySvm, KeyName), 15), 15),
              Field(Slice(Get2(rec, KeyLun, KeyName), 35), 35),
              Field(Get2(rec, KeyLun, KeyUuid), 40),
              Field(Slice(Get2(rec, KeyIgroup, KeyName), 15), 15),
              Field(Get2(rec, KeyIgroup, KeyUuid), 40)>>, Space, <<>>)

\* The header and the row of the simple view.
LunMapSimpleHeader ==
    FString(<<Field(PyStr(HeadVserver), 15), Field(PyStr(HeadPath), 35),
              Field(PyStr(HeadIgroup), 15)>>, Space, <<>>).s

LunMapSimpleRow(rec) ==
    FString(<<Field(Get2(rec, KeySvm, KeyName), 15),
              Field(Get2(rec, KeyLun, KeyName), 35),
              Field(Get2(rec, KeyIgroup, KeyName), 15)>>, Space, <<>>)

\* The row of a record in a view.
LunMapRowOf(view, rec) ==
    CASE view = "detail" -> LunMapDetailRow(rec)
      [] view = "uuid"   -> LunMapUuidRow(rec)
      [] view = "simple" -> LunMapSimpleRow(rec)

\* `for record in v`: the rows of the records; a str yields its characters
\* and a dict its keys, any other value is not iterable.
RowsOver(view, v) ==
    CASE v.t = "list" -> [i \in 1..Len(v.xs) |-> LunMapRowOf(view, v.xs[i])]
      [] v.t = "str"  -> [i \in 1..Len(v.s) |-> LunMapRowOf(view, PyStr(<<v.s[i]>>))]
      [] v.t = "dict" -> [i \in 1..Len(v.kv) |-> LunMapRowOf(view, PyStr(v.kv[i][1]))]
      [] OTHER        -> <<PyErr("TypeError")>>

\* The detailed view: the rows when the body has `records`, then the two
\* empty lines of print("\n") and the rule.
LunMapDetailView(data) ==
    ThenPrint(PrintRows(IF HasKey(data.kv, KeyRecords)
                        THEN RowsOver("detail", DictGet(data.kv, KeyRecords, PyNone))
                        ELSE <<>>,
                        <<<<>>, LunMapDetailHeader, Rule(120)>>),
              <<<<>>, <<>>, Rule(120)>>)

\* The rows of the UUID view and of the simple view:
\* `"records" in body and body["num_records"] > 0`.
LunMapGuardedRows(view, data, above) ==
    IF ~HasKey(data.kv, KeyRecords) THEN <<>>
    ELSE IF IsErr(above) THEN <<above>>
    ELSE IF above.b THEN RowsOver(view, DictGet(data.kv, KeyRecords, PyNone))
    ELSE <<>>

LunMapUuidView(data) ==
    ThenPrint(PrintRows(LunMapGuardedRows("uuid", data,
                                          AboveZero(DictGet(data.kv, KeyNumRecords, PyNone))),
                        <<<<>>, LunMapUuidHeader, Rule(150)>>),
              <<Rule(150)>>)

LunMapSimpleView(data) ==
    ThenPrint(PrintRows(LunMapGuardedRows("simple", data,
                                          AboveZero(DictGet(data.kv, KeyNumRecords, PyNone))),
                        <<<<>>, LunMapSimpleHeader, Rule(60)>>),
              <<Rule(60)>>)

\* The bordered notice of an empty LUN-map list.
LunMapNotice == <<Repeat("*", 51), NoticeBlank, NoticeNoLunMaps, NoticeBlank, Repeat("*", 51)>>

\* display_lunmaps(records, uuid, params): j is the outcome of
\* records.json().
DisplayLunMaps(j, uuid, params) ==
    IF ~j.ok THEN Rendered(<<<<>>>>, "raise", "JSONDecodeError")
    ELSE IF ~IsDict(j.v) THEN Rendered(<<<<>>>>, "raise", "AttributeError")
    ELSE IF EqualsZero(DictGet(j.v.kv, KeyNumRecords, PyInt(0)))
         THEN Rendered(<<<<>>>> \o LunMapNotice, "exit", "")
    ELSE IF params # <<>> THEN LunMapDetailView(j.v)
    ELSE IF uuid THEN LunMapUuidView(j.v)
    ELSE LunMapSimpleView(j.v)

\* "POST"
MethodPost == <<"P", "O", "S", "T">>

\* "?return_records=true"
ReturnRecords ==
    <<"?", "r", "e", "t", "u", "r", "n", "_", "r", "e", "c", "o", "r", "d", "s", "=", "t", "r",
      "u", "e">>

\* "/initiators"
InitiatorsSuffix == <<"/", "i", "n", "i", "t", "i", "a", "t", "o", "r", "s">>

\* "/vol/"
VolPrefix == <<"/", "v", "o", "l", "/">>

\* "LUN "
MappedLun == <<"L", "U", "N", " ">>

\* " mapped to igroup "
MappedToIgroup ==
    <<" ", "m", "a", "p", "p", "e", "d", " ", "t", "o", " ", "i", "g", "r", "o", "u", "p", " ">>

\* " on SVM "
MappedOnSvm == <<" ", "o", "n", " ", "S", "V", "M", " ">>

\* " successfully."
MappedSuccessfully == <<" ", "s", "u", "c", "c", "e", "s", "s", "f", "u", "l", "l", "y", ".">>

(***************************************************************************)
(* The commands that create: lunmap/create.py and run.py's lun-create,     *)
(* lunmap-create, igroup-create and igroup-add-initiators.                 *)
(***************************************************************************)
\* A POST on the wire: the URL and the body.  requests serialises the dict
\* given as json=, run.py serialises its dict itself with json.dumps: the
\* body is held as the dict whose JSON text is sent.
Post(url, body) == [method |-> MethodPost, url |-> url, body |-> body]

\* {"name": v}
Named(v) == PyDict(<<<<KeyName, PyStr(v)>>>>)

\* params of lunmap/create.py's main, sent as the body.
LunMapCreateParams(svm, igroup, lun) ==
    PyDict(<<<<KeySvm, Named(svm)>>, <<KeyIgroup, Named(igroup)>>, <<KeyLun, Named(lun)>>>>)

\* The POST of create(base, headers, params, verify).
LunMapCreateRequest(h, params) ==
    Post(LunMapListBase(h) \o LunMapsRelPath, params)

\* resp.status_code >= 400 in create
CreateIsError(status) == status >= 400

\* The success line of create: params['lun']['name'] and its siblings.
LunMapCreateNotice(svm, igroup, lun) ==
    MappedLun \o lun \o MappedToIgroup \o igroup \o MappedOnSvm \o svm \o MappedSuccessfully

\* verify as each script's main computes it from args.insecure, the value
\* every request of the run is made with: run.py hands the flag itself to
\* OntapClient as verify_tls and _req passes self.verify; lunmap/list.py
\* hands args.insecure to list_lun_maps as verify; lunmap/create.py negates.
VerifyOf(script, flag) ==
    CASE script = "run.py"           -> flag
      [] script = "lunmap/list.py"   -> flag
      [] script = "lunmap/create.py" -> ~flag

\* "LUN mapping creation successful!"
NoticeMapCreated ==
    <<"L", "U", "N", " ", "m", "a", "p", "p", "i", "n", "g", " ", "c", "r", "e", "a", "t", "i",
      "o", "n", " ", "s", "u", "c", "c", "e", "s", "s", "f", "u", "l", "!">>

\* " in "
MappedIn == <<" ", "i", "n", " ">>

\* " with LUN ID "
MappedWithLunId == <<" ", "w", "i", "t", "h", " ", "L", "U", "N", " ", "I", "D", " ">>

\* "Igroup OS Type: "
IgroupOsTypeLabel ==
    <<"I", "g", "r", "o", "u", "p", " ", "O", "S", " ", "T", "y", "p", "e", ":", " ">>

\* ",\nProtocol: "
ProtocolLabel == <<",", "\n", "P", "r", "o", "t", "o", "c", "o", "l", ":", " ">>

\* "LUN creation successful!"
NoticeLunCreated ==
    <<"L", "U", "N", " ", "c", "r", "e", "a", "t", "i", "o", "n", " ", "s", "u", "c", "c", "e",
      "s", "s", "f", "u", "l", "!">>

\* "LUN"
HeadLun == <<"L", "U", "N">>

\* "LUN Path"
HeadLunPath == <<"L", "U", "N", " ", "P", "a", "t", "h">>

\* "VOLUME"
HeadVolume == <<"V", "O", "L", "U", "M", "E">>

\* "SIZE"
HeadSizePlain == <<"S", "I", "Z", "E">>

\* "OS-Type"
HeadOsTypeDash == <<"O", "S", "-", "T", "y", "p", "e">>

\* "N/A"
ValNotAvailable == <<"N", "/", "A">>

\* "logical_unit"
KeyLogicalUnit == <<"l", "o", "g", "i", "c", "a", "l", "_", "u", "n", "i", "t">>

\* "Igroup creation successful!"
NoticeIgroupCreated ==
    <<"I", "g", "r", "o", "u", "p", " ", "c", "r", "e", "a", "t", "i", "o", "n", " ", "s", "u",
      "c", "c", "e", "s", "s", "f", "u", "l", "!">>

\* "Igroup Name"
HeadIgroupName == <<"I", "g", "r", "o", "u", "p", " ", "N", "a", "m", "e">>

\* "Protocol"
HeadProtocolTitle == <<"P", "r", "o", "t", "o", "c", "o", "l">>

\* v[k] with a str key: a dict's value or KeyError; a list and a str take
\* no str index, None takes none at all.
Item(v, k) ==
    CASE v.t = "error" -> v
      [] v.t = "dict"  -> IF HasKey(v.kv, k) THEN DictGet(v.kv, k, PyNone) ELSE PyErr("KeyError")
      [] OTHER         -> PyErr("TypeError")

\* v[0]
First(v) ==
    CASE v.t = "error" -> v
      [] v.t = "list"  -> IF v.xs = <<>> THEN PyErr("IndexError") ELSE v.xs[1]
      [] v.t = "str"   -> IF v.s = <<>> THEN PyErr("IndexError") ELSE PyStr(<<v.s[1]>>)
      [] v.t = "dict"  -> PyErr("KeyError")
      [] OTHER         -> PyErr("TypeError")

\* resp["records"][0]
FirstOfRecords(resp) == First(Item(resp, KeyRecords))

\* The values lunmap_create_response_summary reads, in the order it reads
\* them: name, lun, node, igroup, ig_os_type, protocol, lunid.
LunMapCreatedValues(record) ==
    <<Get2(record, KeySvm, KeyName), Get2(record, KeyLun, KeyName),
      Get3(record, KeyLun, KeyNode, KeyName), Get2(record, KeyIgroup, KeyName),
      Get2(record, KeyIgroup, KeyOsType), Get2(record, KeyIgroup, KeyProtocol),
      Get(record, KeyLogicalUnitNumber, EmptyStr)>>

\* The two sentences it prints.
LunMapCreatedSentence(v) ==
    MappedLun \o Str(v[2]) \o MappedIn \o Str(v[3]) \o MappedToIgroup \o Str(v[4])
    \o MappedOnSvm \o Str(v[1]) \o MappedWithLunId \o Str(v[7]) \o <<".">>

LunMapCreatedProtocol(v) == IgroupOsTypeLabel \o Str(v[5]) \o ProtocolLabel \o Str(v[6])

LunMapCreatedLines(v) ==
    IF \E i \in 1..Len(v) : IsErr(v[i]) THEN Rendered(<<>>, "raise", FirstErr(v).exc)
    ELSE Rendered(<<NoticeMapCreated, Rule(75), LunMapCreatedSentence(v),
                    LunMapCreatedProtocol(v), Rule(75)>>, "return", "")

\* lunmap_create_response_summary(resp)
LunMapCreateResponseSummary(resp) == LunMapCreatedLines(LunMapCreatedValues(FirstOfRecords(resp)))

\* The values lun_create_response_summary reads, in the order it reads them:
\* the size, lun_path, lun, uuid, Volume, from_bytes(size), os_Type, svm.
LunCreatedValues(record, py) ==
    <<Get2(record, KeySpace, KeySize), Get(record, KeyName, EmptyDict),
      Get2(record, KeyLocation, KeyLogicalUnit), Get(record, KeyUuid, PyStr(ValNotAvailable)),
      Get3(record, KeyLocation, KeyVolume, KeyName),
      FromBytes(Get2(record, KeySpace, KeySize), py),
      Get(record, KeyOsType, EmptyStr), Get2(record, KeySvm, KeyName)>>

LunCreatedHeader ==
    Space \o LJust(HeadLun, 20) \o Space \o LJust(HeadLunPath, 35) \o Space \o Space
    \o LJust(HeadSvm, 10) \o Space \o LJust(HeadUuid, 36) \o Space \o LJust(HeadVolume, 15)
    \o Space \o LJust(HeadSizePlain, 10) \o Space \o LJust(HeadOsTypeDash, 10) \o Space

\* The row: lun, lun_path, svm, uuid, Volume, size, os_Type.
LunCreatedRow(v) ==
    FString(<<Field(v[3], 20), Field(v[2], 35), Field(v[8], 10), Field(v[4], 38),
              Field(v[5], 15), Field(v[6], 10), Field(v[7], 10)>>, Space, Space)

LunCreatedLines(v) ==
    IF \E i \in 1..Len(v) : IsErr(v[i]) THEN Rendered(<<>>, "raise", FirstErr(v).exc)
    ELSE ThenPrint(PrintRows(<<LunCreatedRow(v)>>,
                             <<NoticeLunCreated, LunCreatedHeader, Rule(141)>>), <<Rule(141)>>)

\* lun_create_response_summary(resp)
LunCreateResponseSummary(resp, py) == LunCreatedLines(LunCreatedValues(FirstOfRecords(resp), py))

\* k in v for a str k: a dict's keys, a list's elements, a str's substrings;
\* None and a number are no containers.
In(k, v) ==
    CASE v.t = "error" -> v
      [] v.t = "dict"  -> PyBool(HasKey(v.kv, k))
      [] v.t = "list"  -> PyBool(\E i \in 1..Len(v.xs) : v.xs[i] = PyStr(k))
      [] v.t = "str"   -> PyBool(Contains(v.s, k))
      [] OTHER         -> PyErr("TypeError")

\* v[:]
FullSlice(v) ==
    CASE v.t = "error" -> v
      [] v.t \in {"str", "list"} -> v
      [] OTHER         -> PyErr("TypeError")

\* What `for record in v` visits: a list's elements, a dict's keys, a str's
\* characters; an error for what is not iterable.
Iterated(v) ==
    CASE v.t = "error" -> v
      [] v.t = "list"  -> v
      [] v.t = "dict"  -> PyList([i \in 1..Len(v.kv) |-> PyStr(v.kv[i][1])])
      [] v.t = "str"   -> PyList([i \in 1..Len(v.s) |-> PyStr(<<v.s[i]>>)])
      [] OTHER         -> PyErr("TypeError")

IgroupCreatedHeader ==
    LJust(HeadIgroupName, 25) \o Space \o LJust(HeadProtocolTitle, 10) \o Space
    \o LJust(HeadOsTypeDash, 15) \o Space

\* The row of one record: the three .get come before the f-string.
IgroupCreatedCells(name, protocol, os_type) ==
    IF IsErr(name) THEN name
    ELSE IF IsErr(protocol) THEN protocol
    ELSE IF IsErr(os_type) THEN os_type
    ELSE FString(<<Field(FullSlice(name), 25), Field(Slice(protocol, 10), 10),
                   Field(Slice(os_type, 15), 15)>>, Space, <<>>)

IgroupCreatedRow(record) ==
    IgroupCreatedCells(Get(record, KeyName, EmptyStr), Get(record, KeyProtocol, EmptyStr),
                       Get(record, KeyOsType, EmptyStr))

\* The lines printed before the test of `records`.
IgroupCreatedHead(resp) ==
    <<Str(resp), NoticeIgroupCreated, Rule(60), IgroupCreatedHeader, Rule(60)>>

\* The loop over resp["records"].
IgroupCreatedRows(resp, records) ==
    IF IsErr(records) THEN Rendered(IgroupCreatedHead(resp), "raise", records.exc)
    ELSE ThenPrint(PrintRows([i \in 1..Len(records.xs) |-> IgroupCreatedRow(records.xs[i])],
                             IgroupCreatedHead(resp)), <<Rule(60)>>)

\* `"records" in resp and resp["num_records"] > 0`, and what follows it.
IgroupCreatedGuarded(resp, has, above) ==
    IF IsErr(has) THEN Rendered(IgroupCreatedHead(resp), "raise", has.exc)
    ELSE IF ~has.b THEN Rendered(Append(IgroupCreatedHead(resp), Rule(60)), "return", "")
    ELSE IF IsErr(above) THEN Rendered(IgroupCreatedHead(resp), "raise", above.exc)
    ELSE IF ~above.b THEN Rendered(Append(IgroupCreatedHead(resp), Rule(60)), "return", "")
    ELSE IgroupCreatedRows(resp, Iterated(Item(resp, KeyRecords)))

\* resp["num_records"] > 0
NumRecordsAbove(v) == IF IsErr(v) THEN v ELSE AboveZero(v)

\* create_igroup_response_summary(resp)
CreateIgroupResponseSummary(resp) ==
    IgroupCreatedGuarded(resp, In(KeyRecords, resp),
                         NumRecordsAbove(Item(resp, KeyNumRecords)))

\* The body of OntapClient.lun_create once to_bytes returned `size`, a byte
\* count held by its two factors.
RunLunCreateBody(svm, volume, lun, size, os_type) ==
    PyDict(<<<<KeyName, PyStr(VolPrefix \o volume \o Slash \o lun)>>,
             <<KeyOsType, PyStr(os_type)>>,
             <<KeySvm, Named(svm)>>,
             <<KeySpace, PyDict(<<<<KeySize, [t |-> "bytes", n |-> size.n, e |-> size.e]>>>>)>>>>)

\* The body of OntapClient.igroup_create for a command line without
\* --initiator and --i_group, whose lists are None.
RunIgroupCreateBody(svm, name, os_type, protocol) ==
    PyDict(<<<<KeyName, PyStr(name)>>, <<KeySvm, Named(svm)>>,
             <<KeyOsType, PyStr(os_type)>>, <<KeyProtocol, PyStr(protocol)>>>>)

\* The body of OntapClient.lunmap_create.
RunLunMapCreateBody(svm, igroup, lun_path) == LunMapCreateParams(svm, igroup, lun_path)

\* The body of OntapClient.igroup_add_initiators.
RunAddInitiatorsBody(initiators) ==
    PyDict(<<<<KeyRecords, PyList([i \in 1..Len(initiators) |-> Named(initiators[i])])>>>>)

\* The path of OntapClient.igroup_add_initiators.
RunAddInitiatorsPath(igroup) == IgroupsPath \o Slash \o igroup \o InitiatorsSuffix

\* The attributes of the Namespace argparse builds for igroup-add-initiators:
\* the top-level options, the subcommand, and the dest of its two options.
AddInitiatorsNamespace ==
    {"host", "user", "password", "oauth_token", "insecure", "cmd", "igroup_uuid", "initiator"}

\* args.<name>: AttributeError when the Namespace has no such attribute.
ArgsHas(namespace, name) == name \in namespace

\* The path each create command of run.py posts to.
RunCreatePath(cmd) ==
    CASE cmd = "run.py lun-create"    -> LunsPath \o ReturnRecords
      [] cmd = "run.py igroup-create" -> IgroupsPath \o ReturnRecords
      [] cmd = "run.py lunmap-create" -> LunMapsPath \o ReturnRecords

\* The response summary main prints for each create command.
RunCreateSummary(cmd, resp, py) ==
    CASE cmd = "run.py lun-create"    -> LunCreateResponseSummary(resp, py)
      [] cmd = "run.py igroup-create" -> CreateIgroupResponseSummary(resp)
      [] cmd = "run.py lunmap-create" -> LunMapCreateResponseSummary(resp)

(***************************************************************************)
(* The environment: the operator's configuration and the server's answers  *)
(***************************************************************************)

\* The longest chain of pages the server serves in one walk.
MaxPages == 3

\* "nas1"
HostNas == <<"n", "a", "s", "1">>

\* "api1"
HostApi == <<"a", "p", "i", "1">>

\* "name,uuid"
FieldsValue == <<"n", "a", "m", "e", ",", "u", "u", "i", "d">>

\* "svm.name"
KeySvmName == <<"s", "v", "m", ".", "n", "a", "m", "e">>

\* "svm1"
SvmValue == <<"s", "v", "m", "1">>

\* "/api/x?cursor=2"
HrefRooted == <<"/", "a", "p", "i", "/", "x", "?", "c", "u", "r", "s", "o", "r", "=", "2">>

\* "/api/x?a=1&a=2"
HrefRepeatedKey == <<"/", "a", "p", "i", "/", "x", "?", "a", "=", "1", "&", "a", "=", "2">>

\* "/api/x?flag&c=%2F"
HrefOpaque == <<"/", "a", "p", "i", "/", "x", "?", "f", "l", "a", "g", "&", "c", "=", "%", "2", "F">>

\* "https://other/api/x?cursor=2"
HrefForeign == <<"h", "t", "t", "p", "s", ":", "/", "/", "o", "t", "h", "e", "r", "/", "a", "p", "i", "/", "x", "?", "c", "u", "r", "s", "o", "r", "=", "2">>

\* "x?cursor=2"
HrefRelative == <<"x", "?", "c", "u", "r", "s", "o", "r", "=", "2">>

\* "Not Found"
BodyNotFound == <<"N", "o", "t", " ", "F", "o", "u", "n", "d">>

\* "{"error":"x"}"
BodyErrorJson == <<"{", "\"", "e", "r", "r", "o", "r", "\"", ":", "\"", "x", "\"", "}">>

\* "[]"
BodyList == <<"[", "]">>

\* "{}"
BodyEmptyObject == <<"{", "}">>

\* "{"records":null}"
BodyNullRecords == <<"{", "\"", "r", "e", "c", "o", "r", "d", "s", "\"", ":", "n", "u", "l", "l", "}">>

\* "{"records":["
PageOpen == <<"{", "\"", "r", "e", "c", "o", "r", "d", "s", "\"", ":", "[">>

\* "],"_links":{"next":{"href":""
PageLinks == <<"]", ",", "\"", "_", "l", "i", "n", "k", "s", "\"", ":", "{", "\"", "n", "e", "x", "t", "\"", ":", "{", "\"", "h", "r", "e", "f", "\"", ":", "\"">>

\* ""}}}"
PageLinksClose == <<"\"", "}", "}", "}">>

\* "]}"
PageClose == <<"]", "}">>

\* "{"id":"
RecordOpen == <<"{", "\"", "i", "d", "\"", ":">>

\* "id"
KeyId == <<"i", "d">>

\* The HOST values of the .env file: a plain name, and a name beginning "api".
Hosts == {HostNas, HostApi}

\* An absolute continuation reference naming host h (HrefForeign names
\* another host).
HrefAbsolute(h) == HttpsScheme \o h \o HrefRooted

\* The continuation references a page may carry, one of each shape the server
\* can produce; <<>> is a page without one.
Hrefs(h) == {HrefRooted, HrefRepeatedKey, HrefOpaque, HrefRelative, HrefAbsolute(h),
             HrefForeign}

\* The record ids of one page that is followed by another.
RecordLists == {<<1, 2>>, <<3>>}

\* The filter parameters main builds from the command line: always `fields`,
\* and the optional svm.name filter before it.
ParamSets == { <<<<KeyFields, FieldsValue>>>>,
               <<<<KeySvmName, SvmValue>>, <<KeyFields, FieldsValue>>>> }

\* A record as the server reports it, decoded: {"id": n}.
RecordValue(n) == PyDict(<<<<KeyId, PyInt(n)>>>>)

RecordValues(ids) == [i \in 1..Len(ids) |-> RecordValue(ids[i])]

\* The body text the server writes for a page: the envelope of section 6.
PageText(ids, href) ==
    PageOpen
    \o Join(<<",">>, [i \in 1..Len(ids) |-> RecordOpen \o IntStr(ids[i]) \o <<"}">>])
    \o (IF href = <<>> THEN PageClose ELSE PageLinks \o href \o PageLinksClose)

\* A response: what the server chose (kind, ids, href) and what the client
\* sees of it (status, text).
Response(kind, status, text, ids, href) ==
    [kind |-> kind, status |-> status, text |-> text, ids |-> ids, href |-> href]

\* Successful pages, with and without a continuation reference; the last two
\* are the empty listing, with `records` empty and with `records` absent.
PageResponses(h) ==
    {Response("page", 200, PageText(ids, href), ids, href) :
        ids \in RecordLists, href \in Hrefs(h) \cup {<<>>}}
    \cup {Response("page", 200, PageText(<<>>, <<>>), <<>>, <<>>),
          Response("page", 200, BodyEmptyObject, <<>>, <<>>)}

\* Successful responses whose body is empty, blank or not the envelope.
MalformedResponses ==
    {Response("malformed", 200, text, <<>>, <<>>) :
        text \in {<<>>, <<" ">>, BodyNotFound, BodyList, BodyNullRecords}}

\* Error responses: a JSON body, a plain-text body, an empty body.
ErrorResponses ==
    {Response("error", st, text, <<>>, <<>>) :
        st \in {400, 500}, text \in {BodyErrorJson, BodyNotFound, <<>>}}

\* The answers the server may give to the k-th GET of a walk: the chain ends
\* at page MaxPages at the latest.
WalkResponses(h, k) ==
    {r \in PageResponses(h) : k < MaxPages \/ r.href = <<>>}
    \cup MalformedResponses \cup ErrorResponses

\* "u-1"
UuidArg == <<"u", "-", "1">>

\* "/vol/v/l"
LunArg == <<"/", "v", "o", "l", "/", "v", "/", "l">>

\* "ig1"
IgroupArg == <<"i", "g", "1">>

\* "YES"
AnswerUpper == <<"Y", "E", "S">>

\* "no"
AnswerNo == <<"n", "o">>

\* "y"
AnswerY == <<"y">>

\* What the operator may type at the prompt.
Answers == {Yes, AnswerUpper, AnswerNo, AnswerY, <<>>}

\* The answers the server may give to the lookup GET of a delete script.
LookupResponses(h) == WalkResponses(h, MaxPages)

\* The answers the server may give to a DELETE.
DeleteResponses ==
    {Response("deleted", 200, text, <<>>, <<>>) : text \in {<<>>, BodyEmptyObject}}
    \cup ErrorResponses

\* "],"num_records":"
PageNumRecords ==
    <<"]", ",", "\"", "n", "u", "m", "_", "r", "e", "c", "o", "r", "d", "s", "\"", ":">>

\* ","_links":{"next":{"href":""
PageNumLinks ==
    <<",", "\"", "_", "l", "i", "n", "k", "s", "\"", ":", "{", "\"", "n", "e", "x", "t", "\"",
      ":", "{", "\"", "h", "r", "e", "f", "\"", ":", "\"">>

\* "}"
PageNumClose == <<"}">>

\* The body text of a page of the LUN-map listing: the envelope with its
\* count of records.
LunMapPageText(ids, href) ==
    PageOpen
    \o Join(<<",">>, [i \in 1..Len(ids) |-> RecordOpen \o IntStr(ids[i]) \o <<"}">>])
    \o PageNumRecords \o IntStr(Len(ids))
    \o (IF href = <<>> THEN PageNumClose ELSE PageNumLinks \o href \o PageLinksClose)

\* The answers the server may give to the GET of lunmap/list.py: a page with
\* or without a continuation reference, the empty listing, a body that is
\* not the envelope, an error.
LunMapListResponses(h) ==
    {Response("page", 200, LunMapPageText(ids, href), ids, href) :
        ids \in RecordLists, href \in Hrefs(h) \cup {<<>>}}
    \cup {Response("page", 200, LunMapPageText(<<>>, <<>>), <<>>, <<>>)}
    \cup MalformedResponses \cup ErrorResponses

\* The params dict main of lunmap/list.py builds from --lun and --igroup.
LunMapListParamSets ==
    {<<>>, <<<<KeyLunName, LunArg>>>>, <<<<KeyLunName, LunArg>>, <<KeyIgroupName, IgroupArg>>>>}

\* "iscsi"
ValIscsi == <<"i", "s", "c", "s", "i">>

\* "linux"
ValLinux == <<"l", "i", "n", "u", "x">>

\* "online"
ValOnline == <<"o", "n", "l", "i", "n", "e">>

\* "v"
ValVol == <<"v">>

\* "n1"
ValNode == <<"n", "1">>

\* "p1"
ValParent == <<"p", "1">>

\* "g-1"
ValIgUuid == <<"g", "-", "1">>

\* "iqn.1998-01.com.a:h1"
ValInitiatorA ==
    <<"i", "q", "n", ".", "1", "9", "9", "8", "-", "0", "1", ".", "c", "o", "m", ".", "a", ":",
      "h", "1">>

\* "iqn.1998-01.com.a:h2"
ValInitiatorB ==
    <<"i", "q", "n", ".", "1", "9", "9", "8", "-", "0", "1", ".", "c", "o", "m", ".", "a", ":",
      "h", "2">>

\* "iqn.1998-01.com.a:h3"
ValInitiatorC ==
    <<"i", "q", "n", ".", "1", "9", "9", "8", "-", "0", "1", ".", "c", "o", "m", ".", "a", ":",
      "h", "3">>

\* "20:00:00:25:b5:11:22"
ValWwpn ==
    <<"2", "0", ":", "0", "0", ":", "0", "0", ":", "2", "5", ":", "b", "5", ":", "1", "1", ":",
      "2", "2">>

\* "iqn.2005-03.org.b:h4"
ValIqn ==
    <<"i", "q", "n", ".", "2", "0", "0", "5", "-", "0", "3", ".", "o", "r", "g", ".", "b", ":",
      "h", "4">>

\* "svm-with-a-name-of-thirty-six-chars1"
ValLongVserver ==
    <<"s", "v", "m", "-", "w", "i", "t", "h", "-", "a", "-", "n", "a", "m", "e", "-", "o", "f",
      "-", "t", "h", "i", "r", "t", "y", "-", "s", "i", "x", "-", "c", "h", "a", "r", "s", "1">>

\* "igroup-of-21-chars-xx"
ValLongIgroup ==
    <<"i", "g", "r", "o", "u", "p", "-", "o", "f", "-", "2", "1", "-", "c", "h", "a", "r", "s",
      "-", "x", "x">>

\* "/vol/vol_app_data/lun_01"
ValPathA ==
    <<"/", "v", "o", "l", "/", "v", "o", "l", "_", "a", "p", "p", "_", "d", "a", "t", "a", "/",
      "l", "u", "n", "_", "0", "1">>

\* "/vol/vol_app_data/lun_02"
ValPathB ==
    <<"/", "v", "o", "l", "/", "v", "o", "l", "_", "a", "p", "p", "_", "d", "a", "t", "a", "/",
      "l", "u", "n", "_", "0", "2">>

\* "/vol/vol_app_data/lun_03"
ValPathC ==
    <<"/", "v", "o", "l", "/", "v", "o", "l", "_", "a", "p", "p", "_", "d", "a", "t", "a", "/",
      "l", "u", "n", "_", "0", "3">>

\* an igroup with three initiators, which wrap on two lines, and one LUN map
IgFull ==
    PyDict(<<<<KeyName, PyStr(IgroupArg)>>,
           <<KeySvm, PyDict(<<<<KeyName, PyStr(SvmValue)>>>>)>>,
           <<KeyProtocol, PyStr(ValIscsi)>>, <<KeyOsType, PyStr(ValLinux)>>,
           <<KeyInitiators, PyList(<<PyDict(<<<<KeyName, PyStr(ValInitiatorA)>>>>), PyDict(<<<<KeyName, PyStr(ValInitiatorB)>>>>), PyDict(<<<<KeyName, PyStr(ValInitiatorC)>>>>)>>)>>,
           <<KeyParentIgroups, PyList(<<PyDict(<<<<KeyName, PyStr(ValParent)>>>>)>>)>>,
           <<KeyLunMaps, PyList(<<PyDict(<<<<KeyLogicalUnitNumber, PyInt(0)>>,
           <<KeyLun, PyDict(<<<<KeyName, PyStr(LunArg)>>>>)>>>>)>>)>>>>)

\* an igroup with one initiator and four LUN maps, which wrap on two lines
IgMaps ==
    PyDict(<<<<KeyName, PyStr(IgroupArg)>>,
           <<KeySvm, PyDict(<<<<KeyName, PyStr(SvmValue)>>>>)>>,
           <<KeyProtocol, PyStr(ValIscsi)>>, <<KeyOsType, PyStr(ValLinux)>>,
           <<KeyInitiators, PyList(<<PyDict(<<<<KeyWwpn, PyStr(ValWwpn)>>>>), PyDict(<<<<KeyIqn, PyStr(ValIqn)>>>>)>>)>>,
           <<KeyLunMaps, PyList(<<PyDict(<<<<KeyLogicalUnitNumber, PyInt(0)>>,
           <<KeyLun, PyDict(<<<<KeyName, PyStr(ValPathA)>>>>)>>>>), PyDict(<<<<KeyLogicalUnitNumber, PyInt(1)>>,
           <<KeyLun, PyDict(<<<<KeyName, PyStr(ValPathB)>>>>)>>>>), PyDict(<<<<KeyLogicalUnitNumber, PyInt(2)>>,
           <<KeyLun, PyDict(<<<<KeyName, PyStr(ValPathC)>>>>)>>>>), PyDict(<<<<KeyLun, PyDict(<<<<KeyName, PyStr(LunArg)>>>>)>>>>)>>)>>>>)

\* an igroup record without any key
IgEmpty ==
    EmptyDict

\* an igroup whose svm has no name, without initiators and maps
IgNoSvmName ==
    PyDict(<<<<KeyName, PyStr(IgroupArg)>>, <<KeySvm, EmptyDict>>,
           <<KeyOsType, PyStr(ValLinux)>>>>)

\* an igroup whose names are longer than their columns
IgLongNames ==
    PyDict(<<<<KeyName, PyStr(ValLongIgroup)>>,
           <<KeySvm, PyDict(<<<<KeyName, PyStr(ValLongVserver)>>>>)>>,
           <<KeyProtocol, PyStr(ValIscsi)>>, <<KeyOsType, PyStr(ValLinux)>>,
           <<KeyInitiators, PyList(<<PyDict(<<<<KeyName, PyStr(ValInitiatorA)>>>>)>>)>>>>)

\* an igroup whose name is null
IgNullName ==
    PyDict(<<<<KeyName, PyNone>>, <<KeySvm, PyDict(<<<<KeyName, PyStr(SvmValue)>>>>)>>>>)

\* an igroup whose svm is null
IgSvmNull ==
    PyDict(<<<<KeyName, PyStr(IgroupArg)>>, <<KeySvm, PyNone>>>>)

\* an igroup whose svm.name holds an object
IgSvmNested ==
    PyDict(<<<<KeyName, PyStr(IgroupArg)>>,
           <<KeySvm, PyDict(<<<<KeyName, PyDict(<<<<KeyName, PyStr(SvmValue)>>>>)>>>>)>>>>)

\* an igroup with an initiator whose name is a number
IgInitiatorNumber ==
    PyDict(<<<<KeyName, PyStr(IgroupArg)>>,
           <<KeyInitiators, PyList(<<PyDict(<<<<KeyName, PyInt(5)>>>>)>>)>>>>)

\* a LUN of 4096 bytes
LunFull ==
    PyDict(<<<<KeyName, PyStr(LunArg)>>, <<KeyUuid, PyStr(UuidArg)>>,
           <<KeyStatus, PyDict(<<<<KeyState, PyStr(ValOnline)>>>>)>>,
           <<KeySvm, PyDict(<<<<KeyName, PyStr(SvmValue)>>>>)>>,
           <<KeyLocation, PyDict(<<<<KeyVolume, PyDict(<<<<KeyName, PyStr(ValVol)>>>>)>>>>)>>,
           <<KeySpace, PyDict(<<<<KeySize, PyInt(4096)>>>>)>>>>)

\* a LUN of 512 bytes
LunSmall ==
    PyDict(<<<<KeyName, PyStr(LunArg)>>, <<KeyUuid, PyStr(UuidArg)>>,
           <<KeySpace, PyDict(<<<<KeySize, PyInt(512)>>>>)>>>>)

\* a LUN of 1536 bytes
LunFraction ==
    PyDict(<<<<KeyName, PyStr(LunArg)>>, <<KeyUuid, PyStr(UuidArg)>>,
           <<KeySpace, PyDict(<<<<KeySize, PyInt(1536)>>>>)>>>>)

\* a LUN record without `space`
LunNoSpace ==
    PyDict(<<<<KeyName, PyStr(LunArg)>>, <<KeyUuid, PyStr(UuidArg)>>,
           <<KeyStatus, PyDict(<<<<KeyState, PyStr(ValOnline)>>>>)>>,
           <<KeySvm, PyDict(<<<<KeyName, PyStr(SvmValue)>>>>)>>>>)

\* a LUN record whose `space` has no `size`
LunNoSize ==
    PyDict(<<<<KeyName, PyStr(LunArg)>>, <<KeyUuid, PyStr(UuidArg)>>,
           <<KeySpace, EmptyDict>>>>)

\* a LUN record whose size is null
LunNullSize ==
    PyDict(<<<<KeyName, PyStr(LunArg)>>, <<KeySpace, PyDict(<<<<KeySize, PyNone>>>>)>>>>)

\* a LUN record whose name is null
LunNullName ==
    PyDict(<<<<KeyName, PyNone>>, <<KeySpace, PyDict(<<<<KeySize, PyInt(4096)>>>>)>>>>)

\* a LUN map with every field
MapFull ==
    PyDict(<<<<KeySvm, PyDict(<<<<KeyName, PyStr(SvmValue)>>>>)>>,
           <<KeyLun, PyDict(<<<<KeyName, PyStr(LunArg)>>, <<KeyUuid, PyStr(UuidArg)>>,
           <<KeyNode, PyDict(<<<<KeyName, PyStr(ValNode)>>>>)>>>>)>>,
           <<KeyIgroup, PyDict(<<<<KeyName, PyStr(IgroupArg)>>, <<KeyUuid, PyStr(ValIgUuid)>>,
           <<KeyOsType, PyStr(ValLinux)>>, <<KeyProtocol, PyStr(ValIscsi)>>>>)>>,
           <<KeyLogicalUnitNumber, PyInt(0)>>>>)

\* a LUN map record without any key
MapEmpty ==
    EmptyDict

\* a LUN map without `lun`, `igroup` and `svm`
MapNoLun ==
    PyDict(<<<<KeyLogicalUnitNumber, PyInt(12)>>>>)

\* a LUN map whose lun has no node and whose igroup has a name only
MapNoNode ==
    PyDict(<<<<KeySvm, PyDict(<<<<KeyName, PyStr(SvmValue)>>>>)>>,
           <<KeyLun, PyDict(<<<<KeyName, PyStr(LunArg)>>>>)>>,
           <<KeyIgroup, PyDict(<<<<KeyName, PyStr(IgroupArg)>>>>)>>>>)

\* a LUN map whose svm is null
MapSvmNull ==
    PyDict(<<<<KeySvm, PyNone>>, <<KeyLun, PyDict(<<<<KeyName, PyStr(LunArg)>>>>)>>>>)

\* a LUN map whose svm.name is null
MapNullName ==
    PyDict(<<<<KeySvm, PyDict(<<<<KeyName, PyNone>>>>)>>,
           <<KeyLun, PyDict(<<<<KeyName, PyStr(LunArg)>>>>)>>>>)
\* The records a renderer may be handed, by the kind of the list.
IgroupRecords ==
    {IgFull, IgMaps, IgEmpty, IgNoSvmName, IgLongNames, IgNullName, IgSvmNull, IgSvmNested,
     IgInitiatorNumber}

LunRecords == {LunFull, LunSmall, LunFraction, LunNoSpace, LunNoSize, LunNullSize, LunNullName}

LunMapRecords == {MapFull, MapEmpty, MapNoLun, MapNoNode, MapSvmNull, MapNullName}

\* The lists made of these records: the empty list, one record, and a
\* record before or after the complete one.
Tables(rs, full) ==
    {<<>>} \cup {<<r>> : r \in rs} \cup {<<full, r>> : r \in rs} \cup {<<r, full>> : r \in rs}

RecordTables(p) ==
    CASE p \in {"igroup/list.py", "run.py igroup-list"} -> Tables(IgroupRecords, IgFull)
      [] p \in {"lun/list.py", "run.py lun-list"}       -> Tables(LunRecords, LunFull)
      [] p = "run.py lunmap-list"                        -> Tables(LunMapRecords, MapFull)

\* "{"records":[]}"
BodyRecordsEmpty == <<"{", "\"", "r", "e", "c", "o", "r", "d", "s", "\"", ":", "[", "]", "}">>

\* "{"num_records":1}"
BodyCountOnly ==
    <<"{", "\"", "n", "u", "m", "_", "r", "e", "c", "o", "r", "d", "s", "\"", ":", "1", "}">>

\* "{"records":[{"name":"n","space":{"size":4096}}]}"
BodyCreated ==
    <<"{", "\"", "r", "e", "c", "o", "r", "d", "s", "\"", ":", "[", "{", "\"", "n", "a", "m",
      "e", "\"", ":", "\"", "n", "\"", ",", "\"", "s", "p", "a", "c", "e", "\"", ":", "{",
      "\"", "s", "i", "z", "e", "\"", ":", "4", "0", "9", "6", "}", "}", "]", "}">>

\* "{"num_records":1,"records":[{"name":"n","space":{"size":4096}}]}"
BodyCreatedCounted ==
    <<"{", "\"", "n", "u", "m", "_", "r", "e", "c", "o", "r", "d", "s", "\"", ":", "1", ",",
      "\"", "r", "e", "c", "o", "r", "d", "s", "\"", ":", "[", "{", "\"", "n", "a", "m", "e",
      "\"", ":", "\"", "n", "\"", ",", "\"", "s", "p", "a", "c", "e", "\"", ":", "{", "\"",
      "s", "i", "z", "e", "\"", ":", "4", "0", "9", "6", "}", "}", "]", "}">>

\* "v"
VolumeArg == <<"v">>

\* "l"
LunNameArg == <<"l">>

\* The answers the server may give to a POST that creates: success with
\* an empty body, without `records`, with `records` empty, without
\* `num_records`, with both; and the error responses.
CreateResponses ==
    {Response("created", st, text, <<>>, <<>>) :
        st \in {200, 201},
        text \in {<<>>, BodyEmptyObject, BodyRecordsEmpty, BodyCountOnly, BodyCreated,
                  BodyCreatedCounted}}
    \cup ErrorResponses

\* The --initiator lists of igroup-add-initiators: one name, two names.
InitiatorArgs == {<<ValInitiatorA>>, <<ValInitiatorA, ValInitiatorB>>}

\* The --size arguments of lun-create: sizes the help text names, and texts
\* that are no size.
SizeArgs ==
    {<<"4", "0", "9", "6">>, <<"1", "k">>, <<"2", "G">>, <<" ", "1", "0", "0", "M">>,
     <<"1", KelvinSign>>, <<"1", "K", "B">>, <<>>}

\* The texts to_bytes is called with on its own: optional whitespace, a run
\* of digits or none, one suffix character or none or two, optional
\* whitespace; and texts of another form.
SizeDigits ==
    {<<>>, <<"0">>, <<"7">>, <<"1", "2">>, <<"0", "0", "7">>, <<"1", "0", "2", "3">>,
     <<"1", "0", "2", "4">>, <<ArabicThree>>, <<"1", ArabicThree>>}

SizeSuffixes ==
    {<<>>, <<"K">>, <<"M">>, <<"G">>, <<"T">>, <<"P">>, <<"k">>, <<"m">>, <<"g">>, <<"t">>,
     <<"p">>, <<KelvinSign>>, <<"B">>, <<"E">>, <<"K", "B">>, <<"K", "K">>}

SizeSpaces == {<<>>, <<" ">>, <<"\n">>, <<"\t", " ">>}

OtherSizeTexts ==
    {<<"1", " ", "K">>, <<"-", "1">>, <<"+", "1">>, <<"1", ".", "5", "G">>,
     <<"1", " ", "2">>, <<"0", "x", "1", "0">>, <<"G", "1">>}

SizeTexts ==
    {a \o d \o s \o b : a \in SizeSpaces, d \in SizeDigits, s \in SizeSuffixes,
                        b \in SizeSpaces}
    \cup OtherSizeTexts

\* The byte counts from_bytes is called with on its own, n * 1024**e: every
\* n up to MaxMantissa with every exponent a unit stands for.
MaxMantissa == 1025

Exponents == 0..(Len(MultKeys) - 1)

Counts == {[n |-> n, e |-> e] : n \in 0..MaxMantissa, e \in Exponents}

\* The interpreter of the runs that walk pages: the records of these pages
\* carry no size, so that from_bytes never meets an int there and the
\* version of the interpreter makes no difference to them; the size a
\* create's answer carries is divided before it is formatted.
WalkPythons == {"3.11"}

\* The inputs of a call of wrap_text on its own: a text of up to MaxItems
\* items joined by ", " (or the "-" of an empty cell) and a width.
MaxItems == 3
MaxWidth == 6

\* "a", "bc", "defg", and "h," whose last character is a comma.
WrapItems == {<<"a">>, <<"b", "c">>, <<"d", "e", "f", "g">>, <<"h", ",">>}

RECURSIVE ItemLists(_)
ItemLists(n) ==
    IF n = 0 THEN {<<>>}
    ELSE ItemLists(n - 1)
         \cup {Append(l, it) : l \in {x \in ItemLists(n - 1) : Len(x) = n - 1}, it \in WrapItems}

WrapTexts == {Join(CommaSep, l) : l \in ItemLists(MaxItems) \ {<<>>}} \cup {Dash}

\* "HTTP ERROR: "
HttpErrorPrefix == <<"H", "T", "T", "P", " ", "E", "R", "R", "O", "R", ":", " ">>

\* "ERROR: "
ErrorPrefix == <<"E", "R", "R", "O", "R", ":", " ">>


(***************************************************************************)
(* The state of one run of a command                                       *)
(***************************************************************************)
VARIABLES
    prog,      \* the command that runs
    host,      \* HOST of the .env file
    params,    \* the params dict main built (a dict's items)
    pc,        \* "main", "wait"/"lookup"/"delete" (a request is in flight),
               \* "prompt" (input() waits for the operator), "returned" (the
               \* walker handed its list to main), "exit"
    url,       \* paginate_all: the url of the request in flight
    path,      \* _paginate: the path of the request in flight
    query,     \* _paginate: the query dict of the request in flight
    items,     \* the walker's accumulator
    sent,      \* the requests put on the wire, in order
    served,    \* the responses the server gave, in order
    result,    \* what the walker handed to its caller
    prompted,  \* whether the confirmation prompt was displayed
    answers,   \* the operator's answers to the prompt, in order
    stdout,    \* the notices printed, in order
    stderr,    \* the error line printed, <<>> if none
    exitcode,  \* the process exit status, -1 while it runs
    python,    \* the version of the interpreter that runs the command
    insecure,  \* whether --insecure is on the command line
    text,      \* wrap_text: the joined cell value it is called with
    width,     \* wrap_text: the column width it is called with
    lines,     \* wrap_text: the list it returned, <<>> before the call
    sizearg,   \* the text to_bytes is given: --size, or the argument of a call
    count,     \* from_bytes: the byte count it is called with, n * 1024**e
    human,     \* from_bytes: what it returned or raised
    bytes      \* to_bytes: what it returned or raised

vars == <<prog, host, params, pc, url, path, query, items, sent, served, result,
          prompted, answers, stdout, stderr, exitcode, python, insecure, text, width,
          lines, sizearg, count, human, bytes>>

\* The interpreter, the command line's flag and --size, and the variables of
\* a call of wrap_text, to_bytes or from_bytes on its own: no step of a command
\* changes them.
otherVars == <<python, insecure, text, width, lines, sizearg, count, human, bytes>>

\* No call of to_bytes or from_bytes on its own.
NoCount == [n |-> 0, e |-> 0]

NoSizeCall == count = NoCount /\ human = PyNone /\ bytes = PyNone

\* The list commands that walk with paginate_all, and the resource each lists.
PaginateAllProgs == {"igroup/list.py", "lun/list.py"}

\* The run.py list command, which walks with OntapClient._paginate.
PaginateProgs == {"run.py lun-list"}

\* The stand-alone delete scripts.
DelProgs == {"lun/del.py", "lunmap/del.py"}

\* The delete commands of run.py.
RunDeleteProgs == {"run.py lun-delete", "run.py lunmap-delete"}

\* lunmap/list.py, without and with --uuid.
LunMapListProgs == {"lunmap/list.py", "lunmap/list.py --uuid"}

\* The create commands of run.py that print a response summary.
RunCreateProgs == {"run.py lun-create", "run.py igroup-create", "run.py lunmap-create"}

\* The commands of run.py.
RunProgs ==
    PaginateProgs \cup RunDeleteProgs \cup RunCreateProgs \cup {"run.py igroup-add-initiators"}

Progs ==
    PaginateAllProgs \cup DelProgs \cup LunMapListProgs \cup {"lunmap/create.py"} \cup RunProgs

\* The script a command belongs to.
ScriptOf(p) ==
    IF p \in RunProgs THEN "run.py"
    ELSE IF p \in LunMapListProgs THEN "lunmap/list.py"
    ELSE p

\* The scripts whose parser has --insecure.
InsecureScripts == {"run.py", "lunmap/list.py", "lunmap/create.py"}

\* What --insecure may be on the command line of p: absent where the parser
\* has no such flag.
InsecureFlags(p) == IF ScriptOf(p) \in InsecureScripts THEN BOOLEAN ELSE {FALSE}

\* The collection path paginate_all starts from.
ResourcePath(p) == IF p = "igroup/list.py" THEN IgroupsPath ELSE LunsPath

NoResult == [kind |-> "none"]
Returned(xs) == [kind |-> "list", items |-> xs]
Raised(o) == [kind |-> "raised", exc |-> o.exc, msg |-> o.msg]

\* The params dict main holds before the first request.
InitialParams(p) ==
    IF p \in PaginateAllProgs \cup PaginateProgs THEN ParamSets
    ELSE IF p = "lunmap/del.py" THEN {LunMapDeleteParams(LunArg, IgroupArg)}
    ELSE IF p \in LunMapListProgs THEN LunMapListParamSets
    ELSE {<<>>}

Init ==
    /\ prog \in Progs
    /\ host \in Hosts
    /\ params \in InitialParams(prog)
    /\ pc = "main"
    /\ url = <<>>
    /\ path = <<>>
    /\ query = <<>>
    /\ items = <<>>
    /\ sent = <<>>
    /\ served = <<>>
    /\ result = NoResult
    /\ prompted = FALSE
    /\ answers = <<>>
    /\ stdout = <<>>
    /\ stderr = <<>>
    /\ exitcode = -1
    /\ python \in WalkPythons
    /\ insecure \in InsecureFlags(prog)
    /\ text = <<>>
    /\ width = 0
    /\ lines = <<>>
    /\ sizearg \in IF prog = "run.py lun-create" THEN SizeArgs ELSE {<<>>}
    /\ NoSizeCall

\* The walker returns its accumulator: main holds the list, to be rendered.
Return(o) ==
    /\ pc' = "returned"
    /\ result' = Returned(o.items)
    /\ UNCHANGED <<stderr, exitcode>>

\* An exception leaves the walker; the handlers under `if __name__` print it
\* and exit with status 1.  msg is the text of the HTTPError and RuntimeError
\* the source raises; the interpreter's own messages are left empty.
Fail(o) ==
    /\ pc' = "exit"
    /\ result' = Raised(o)
    /\ stderr' = (IF o.exc = "HTTPError" THEN HttpErrorPrefix ELSE ErrorPrefix) \o o.msg
    /\ exitcode' = 1

\* main of igroup/list.py and lun/list.py up to the first GET of paginate_all.
PaginateAllStart ==
    /\ UNCHANGED otherVars
    /\ pc = "main"
    /\ prog \in PaginateAllProgs
    /\ url' = BaseApi(host) \o ResourcePath(prog)
    /\ sent' = Append(sent, Request(MethodGet, url', params))
    /\ pc' = "wait"
    /\ UNCHANGED <<prog, host, params, path, query, items, served, result, prompted,
                   answers, stdout, stderr, exitcode>>

\* paginate_all from the arrival of a response to the next GET, or to its end.
PaginateAllResponse ==
    /\ UNCHANGED otherVars
    /\ pc = "wait"
    /\ prog \in PaginateAllProgs
    /\ \E resp \in WalkResponses(host, Len(served) + 1) :
       \E o \in {PaginateAllStep(BaseApi(host), items, resp)} :
        /\ served' = Append(served, resp)
        /\ items' = o.items
        /\ CASE o.kind = "next" ->
                    /\ url' = o.url
                    /\ sent' = Append(sent, Request(MethodGet, o.url, <<>>))
                    /\ UNCHANGED <<pc, result, stderr, exitcode>>
             [] o.kind = "return" -> Return(o) /\ UNCHANGED <<url, sent>>
             [] o.kind = "raise" -> Fail(o) /\ UNCHANGED <<url, sent>>
    /\ UNCHANGED <<prog, host, params, path, query, prompted, answers, stdout>>

\* main of run.py and lun_list up to the first GET of _paginate.
PaginateStart ==
    /\ UNCHANGED otherVars
    /\ pc = "main"
    /\ prog \in PaginateProgs
    /\ path' = LunsPath
    /\ query' = params
    /\ sent' = Append(sent, Request(MethodGet, ClientBase(host) \o path', query'))
    /\ pc' = "wait"
    /\ UNCHANGED <<prog, host, params, url, items, served, result, prompted, answers,
                   stdout, stderr, exitcode>>

\* _paginate from the arrival of a response to the next GET, or to its end.
PaginateResponse ==
    /\ UNCHANGED otherVars
    /\ pc = "wait"
    /\ prog \in PaginateProgs
    /\ \E resp \in WalkResponses(host, Len(served) + 1) :
       \E o \in {PaginateStep(path, items, resp)} :
        /\ served' = Append(served, resp)
        /\ items' = o.items
        /\ CASE o.kind = "next" ->
                    /\ path' = o.path
                    /\ query' = o.query
                    /\ sent' = Append(sent, Request(MethodGet, ClientBase(host) \o o.path, o.query))
                    /\ UNCHANGED <<pc, result, stderr, exitcode>>
             [] o.kind = "return" -> Return(o) /\ UNCHANGED <<path, query, sent>>
             [] o.kind = "raise" -> Fail(o) /\ UNCHANGED <<path, query, sent>>
    /\ UNCHANGED <<prog, host, params, url, prompted, answers, stdout>>

\* The process ends with `code` after printing `line` on stderr.
Exit(code, line) ==
    /\ pc' = "exit"
    /\ exitcode' = code
    /\ stderr' = line

\* main of lun/del.py and lunmap/del.py up to the GET of get_lun.
DelStart ==
    /\ UNCHANGED otherVars
    /\ pc = "main"
    /\ prog \in DelProgs
    /\ params' = IF prog = "lunmap/del.py" THEN SetDefaultFields(params) ELSE params
    /\ sent' = Append(sent, IF prog = "lun/del.py"
                            THEN LunLookupRequest(BaseApi(host), UuidArg)
                            ELSE LunMapLookupRequest(BaseApi(host), params'))
    /\ pc' = "lookup"
    /\ UNCHANGED <<prog, host, url, path, query, items, served, result, prompted,
                   answers, stdout, stderr, exitcode>>

\* get_lun from the arrival of the response, the display of the record, and
\* input() showing the prompt.
DelLookupResponse ==
    /\ UNCHANGED otherVars
    /\ pc = "lookup"
    /\ prog \in DelProgs
    /\ \E resp \in LookupResponses(host) :
       \E l \in {GetLun(resp)} :
        /\ served' = Append(served, resp)
        /\ CASE l.kind = "exit" ->
                    Exit(1, l.msg) /\ UNCHANGED <<prompted, stdout>>
             [] l.kind = "raise" ->
                    Exit(1, <<>>) /\ UNCHANGED <<prompted, stdout>>
             [] l.kind = "records" /\ ~Truthy(l.records) ->
                    /\ pc' = "prompt"
                    /\ prompted' = TRUE
                    /\ UNCHANGED <<stdout, stderr, exitcode>>
             [] l.kind = "records" /\ Truthy(l.records) /\ DisplayOk(prog, l.records) ->
                    /\ pc' = "prompt"
                    /\ prompted' = TRUE
                    /\ stdout' = Append(stdout, "To be DELETED")
                    /\ UNCHANGED <<stderr, exitcode>>
             [] OTHER ->
                    Exit(1, <<>>) /\ UNCHANGED <<prompted, stdout>>
    /\ UNCHANGED <<prog, host, params, url, path, query, items, sent, result, answers>>

\* The operator answers the prompt: main aborts, or del_lun sends the DELETE.
DelAnswer ==
    /\ UNCHANGED otherVars
    /\ pc = "prompt"
    /\ prog \in DelProgs
    /\ \E prompt \in Answers :
        /\ answers' = Append(answers, prompt)
        /\ IF ~Confirmed(prompt)
           THEN /\ stdout' = Append(stdout, "Aborting... No changes made!")
                /\ Exit(0, <<>>)
                /\ UNCHANGED sent
           ELSE /\ sent' = Append(sent, IF prog = "lun/del.py"
                                        THEN LunDeleteRequest(BaseApi(host), UuidArg)
                                        ELSE LunMapDeleteRequest(BaseApi(host), params))
                /\ pc' = "delete"
                /\ UNCHANGED <<stdout, stderr, exitcode>>
    /\ UNCHANGED <<prog, host, params, url, path, query, items, served, result, prompted>>

\* del_lun from the arrival of the response to the end of main.
DelResponse ==
    /\ UNCHANGED otherVars
    /\ pc = "delete"
    /\ prog \in DelProgs
    /\ \E resp \in DeleteResponses :
        /\ served' = Append(served, resp)
        /\ IF resp.status >= 400
           THEN Exit(1, DelErrorMessage(resp)) /\ UNCHANGED stdout
           ELSE /\ stdout' = Append(stdout, IF prog = "lun/del.py" THEN "LUN DELETED!"
                                            ELSE "LUN MAP DELETED!")
                /\ Exit(0, <<>>)
    /\ UNCHANGED <<prog, host, params, url, path, query, items, sent, result, prompted,
                   answers>>

\* main of run.py for lun-delete and lunmap-delete up to the DELETE of _req.
RunDeleteStart ==
    /\ UNCHANGED otherVars
    /\ pc = "main"
    /\ prog \in RunDeleteProgs
    /\ path' = IF prog = "run.py lun-delete" THEN RunLunDeletePath(UuidArg) ELSE LunMapsPath
    /\ query' = IF prog = "run.py lun-delete" THEN <<>>
                ELSE RunLunMapDeleteParams(LunArg, IgroupArg)
    /\ sent' = Append(sent, Request(MethodDelete, ClientBase(host) \o path', query'))
    /\ pc' = "delete"
    /\ UNCHANGED <<prog, host, params, url, items, served, result, prompted, answers,
                   stdout, stderr, exitcode>>

\* _req from the arrival of the DELETE's response to the end of main.
RunDeleteResponse ==
    /\ UNCHANGED otherVars
    /\ pc = "delete"
    /\ prog \in RunDeleteProgs
    /\ \E resp \in DeleteResponses :
       \E r \in {Req(MethodDelete, path, resp)} :
        /\ served' = Append(served, resp)
        /\ IF r.ok
           THEN stdout' = Append(stdout, "deleted") /\ Exit(0, <<>>)
           ELSE Exit(1, ErrorPrefix \o r.msg) /\ UNCHANGED stdout
    /\ UNCHANGED <<prog, host, params, url, path, query, items, sent, result, prompted,
                   answers>>

\* The commands that print the list their walker returned.
RunListProgs == {"run.py lun-list", "run.py igroup-list", "run.py lunmap-list"}

ListProgs == PaginateAllProgs \cup RunListProgs

\* What main does with the list: the renderer each command calls.
RenderOf(p, records, py) ==
    CASE p \in {"igroup/list.py", "run.py igroup-list"} -> IgroupDisplaySummary(records)
      [] p = "lun/list.py"        -> LunMainTable(records)
      [] p = "run.py lun-list"    -> LunListSummary(records, py)
      [] p = "run.py lunmap-list" -> LunMapDisplaySummary(records)

\* main from the return of the walker to the end of the process: the
\* renderer prints; an exception it raises reaches the `except Exception`
\* handler, sys.exit(0) and a plain return end the process with status 0.
Render ==
    /\ UNCHANGED otherVars
    /\ pc = "returned"
    /\ prog \in ListProgs
    /\ \E r \in {RenderOf(prog, result.items, python)} :
        /\ stdout' = stdout \o r.lines
        /\ IF r.how = "raise" THEN Exit(1, ErrorPrefix) ELSE Exit(0, <<>>)
    /\ UNCHANGED <<prog, host, params, url, path, query, items, sent, served, result,
                   prompted, answers>>

\* main of lunmap/list.py and list_lun_maps up to its GET.
LunMapListStart ==
    /\ UNCHANGED otherVars
    /\ pc = "main"
    /\ prog \in LunMapListProgs
    /\ params' = ListLunMapsParams(params)
    /\ sent' = Append(sent, ListLunMapsRequest(host, params))
    /\ pc' = "wait"
    /\ UNCHANGED <<prog, host, url, path, query, items, served, result, prompted, answers,
                   stdout, stderr, exitcode>>

\* list_lun_maps from the arrival of the response to the end of the
\* process: the error line and status 1, or display_lunmaps, whose
\* exceptions reach the `except Exception` handler.
LunMapListResponse ==
    /\ UNCHANGED otherVars
    /\ pc = "wait"
    /\ prog \in LunMapListProgs
    /\ \E resp \in LunMapListResponses(host) :
        /\ served' = Append(served, resp)
        /\ IF ListLunMapsIsError(resp.status)
           THEN /\ Exit(1, ListLunMapsErrorMessage(resp))
                /\ UNCHANGED stdout
           ELSE \E r \in {DisplayLunMaps(JsonLoads(resp.text),
                                         prog = "lunmap/list.py --uuid", params)} :
                /\ stdout' = stdout \o r.lines
                /\ IF r.how = "raise" THEN Exit(1, ErrorPrefix) ELSE Exit(0, <<>>)
    /\ UNCHANGED <<prog, host, params, url, path, query, items, sent, result, prompted,
                   answers>>

\* main of lunmap/create.py and create up to its POST.
LunMapCreateStart ==
    /\ UNCHANGED otherVars
    /\ pc = "main"
    /\ prog = "lunmap/create.py"
    /\ sent' = Append(sent, LunMapCreateRequest(host,
                                LunMapCreateParams(SvmValue, IgroupArg, LunArg)))
    /\ pc' = "wait"
    /\ UNCHANGED <<prog, host, params, url, path, query, items, served, result, prompted,
                   answers, stdout, stderr, exitcode>>

\* create from the arrival of the response to the end of the process.
LunMapCreateResponse ==
    /\ UNCHANGED otherVars
    /\ pc = "wait"
    /\ prog = "lunmap/create.py"
    /\ \E resp \in CreateResponses :
        /\ served' = Append(served, resp)
        /\ IF CreateIsError(resp.status)
           THEN Exit(1, ListLunMapsErrorMessage(resp)) /\ UNCHANGED stdout
           ELSE /\ stdout' = Append(stdout, LunMapCreateNotice(SvmValue, IgroupArg, LunArg))
                /\ Exit(0, <<>>)
    /\ UNCHANGED <<prog, host, params, url, path, query, items, sent, result, prompted,
                   answers>>

\* The body a create command of run.py posts; lun-create has it once
\* to_bytes returned `size`.
RunCreateBody(cmd, size) ==
    CASE cmd = "run.py lun-create" ->
            RunLunCreateBody(SvmValue, VolumeArg, LunNameArg, size, ValLinux)
      [] cmd = "run.py igroup-create" ->
            RunIgroupCreateBody(SvmValue, IgroupArg, ValLinux, ValIscsi)
      [] cmd = "run.py lunmap-create" ->
            RunLunMapCreateBody(SvmValue, IgroupArg, LunArg)

\* main of run.py for a create command up to the POST of _req; lun_create
\* calls to_bytes first, whose exception reaches the `except Exception`
\* handler of main before any request.
RunCreateStart ==
    /\ UNCHANGED otherVars
    /\ pc = "main"
    /\ prog \in RunCreateProgs
    /\ \E size \in {IF prog = "run.py lun-create" THEN ToBytes(sizearg) ELSE Bytes(0, 0)} :
        IF ~size.ok
        THEN /\ Exit(1, ErrorPrefix \o size.msg)
             /\ UNCHANGED <<path, sent>>
        ELSE /\ path' = RunCreatePath(prog)
             /\ sent' = Append(sent, Post(ClientBase(host) \o path', RunCreateBody(prog, size)))
             /\ pc' = "wait"
             /\ UNCHANGED <<stderr, exitcode>>
    /\ UNCHANGED <<prog, host, params, url, query, items, served, result, prompted, answers,
                   stdout>>

\* _req from the arrival of the POST's response, and the response summary,
\* to the end of main.
RunCreateResponse ==
    /\ UNCHANGED otherVars
    /\ pc = "wait"
    /\ prog \in RunCreateProgs
    /\ \E resp \in CreateResponses :
       \E r \in {Req(MethodPost, path, resp)} :
        /\ served' = Append(served, resp)
        /\ IF ~r.ok
           THEN Exit(1, ErrorPrefix \o r.msg) /\ UNCHANGED stdout
           ELSE \E o \in {RunCreateSummary(prog, r.v, python)} :
                /\ stdout' = stdout \o o.lines
                /\ IF o.how = "raise" THEN Exit(1, ErrorPrefix) ELSE Exit(0, <<>>)
    /\ UNCHANGED <<prog, host, params, url, path, query, items, sent, result, prompted,
                   answers>>

\* main of run.py for igroup-add-initiators: it reads args.igroup and
\* args.initiator and calls client.igroup_add_initiators, which posts.  The
\* Namespace holds --igroup-uuid as igroup_uuid: reading args.igroup raises
\* AttributeError, which the `except Exception` handler prints, so that no
\* run goes on to the POST and to its response.
RunAddInitiators ==
    /\ UNCHANGED otherVars
    /\ pc = "main"
    /\ prog = "run.py igroup-add-initiators"
    /\ \E initiator \in InitiatorArgs :
        IF ArgsHas(AddInitiatorsNamespace, "igroup")
        THEN /\ path' = RunAddInitiatorsPath(UuidArg)
             /\ sent' = Append(sent, Post(ClientBase(host) \o path',
                                          RunAddInitiatorsBody(initiator)))
             /\ pc' = "wait"
             /\ UNCHANGED <<stderr, exitcode>>
        ELSE /\ Exit(1, ErrorPrefix)
             /\ UNCHANGED <<path, sent>>
    /\ UNCHANGED <<prog, host, params, url, query, items, served, result, prompted, answers,
                   stdout>>

Next ==
    \/ Render
    \/ LunMapListStart
    \/ LunMapListResponse
    \/ LunMapCreateStart
    \/ LunMapCreateResponse
    \/ RunCreateStart
    \/ RunCreateResponse
    \/ RunAddInitiators
    \/ PaginateAllStart
    \/ PaginateAllResponse
    \/ PaginateStart
    \/ PaginateResponse
    \/ DelStart
    \/ DelLookupResponse
    \/ DelAnswer
    \/ DelResponse
    \/ RunDeleteStart
    \/ RunDeleteResponse

Spec == Init /\ [][Next]_vars
(***************************************************************************)
(* wrap_text called on its own                                             *)
(***************************************************************************)
\* No command runs: the variables of a command's run keep their first values.
NoCommand ==
    /\ host = <<>> /\ params = <<>>
    /\ url = <<>> /\ path = <<>> /\ query = <<>>
    /\ items = <<>> /\ sent = <<>> /\ served = <<>>
    /\ result = NoResult
    /\ prompted = FALSE /\ answers = <<>>
    /\ stdout = <<>> /\ stderr = <<>>
    /\ exitcode = -1

InitWrap ==
    /\ prog = "wrap_text"
    /\ pc = "main"
    /\ python \in WalkPythons
    /\ insecure = FALSE
    /\ sizearg = <<>>
    /\ NoSizeCall
    /\ text \in WrapTexts
    /\ width \in 1..MaxWidth
    /\ lines = <<>>
    /\ NoCommand

\* lines = wrap_text(text, width)
WrapTextCall ==
    /\ prog = "wrap_text"
    /\ pc = "main"
    /\ lines' = WrapText(text, width)
    /\ pc' = "exit"
    /\ UNCHANGED <<prog, host, params, url, path, query, items, sent, served, result,
                   prompted, answers, stdout, stderr, exitcode, python, insecure, text,
                   width, sizearg, count, human, bytes>>

NextWrap == WrapTextCall

SpecWrap == InitWrap /\ [][NextWrap]_vars

(***************************************************************************)
(* The renderers on their own: main holds a list of records, as a walker   *)
(* returned it, and calls its renderer.                                    *)
(***************************************************************************)
InitRender ==
    /\ prog \in ListProgs
    /\ pc = "returned"
    /\ python \in Pythons
    /\ insecure = FALSE
    /\ sizearg = <<>>
    /\ NoSizeCall
    /\ \E records \in RecordTables(prog) :
        /\ items = records
        /\ result = Returned(records)
    /\ host = HostNas /\ params = <<>>
    /\ url = <<>> /\ path = <<>> /\ query = <<>>
    /\ sent = <<>> /\ served = <<>>
    /\ prompted = FALSE /\ answers = <<>>
    /\ stdout = <<>> /\ stderr = <<>>
    /\ exitcode = -1
    /\ text = <<>> /\ width = 0 /\ lines = <<>>

NextRender == Render

SpecRender == InitRender /\ [][NextRender]_vars

(***************************************************************************)
(* to_bytes and from_bytes called on their own                             *)
(***************************************************************************)
InitSize ==
    /\ prog \in {"to_bytes", "from_bytes"}
    /\ pc = "main"
    /\ python \in Pythons
    /\ insecure = FALSE
    /\ text = <<>> /\ width = 0 /\ lines = <<>>
    /\ IF prog = "to_bytes"
       THEN sizearg \in SizeTexts /\ count = NoCount
       ELSE sizearg = <<>> /\ count \in Counts
    /\ human = PyNone
    /\ bytes = PyNone
    /\ NoCommand

\* bytes = to_bytes(s)
ToBytesCall ==
    /\ prog = "to_bytes"
    /\ pc = "main"
    /\ bytes' = ToBytes(sizearg)
    /\ pc' = "exit"
    /\ UNCHANGED <<prog, host, params, url, path, query, items, sent, served, result,
                   prompted, answers, stdout, stderr, exitcode, python, insecure, text,
                   width, lines, sizearg, count, human>>

\* human = from_bytes(n): the caller goes on with the text, or the exception
\* ends the run.
FromBytesCall ==
    /\ prog = "from_bytes"
    /\ pc = "main"
    /\ human' = FromBytesScaled(count.n, count.e, python)
    /\ pc' = IF IsErr(human') THEN "exit" ELSE "returned"
    /\ UNCHANGED <<prog, host, params, url, path, query, items, sent, served, result,
                   prompted, answers, stdout, stderr, exitcode, python, insecure, text,
                   width, lines, sizearg, count, bytes>>

\* bytes = to_bytes(human), the text from_bytes returned.
ToBytesOfFromBytes ==
    /\ prog = "from_bytes"
    /\ pc = "returned"
    /\ bytes' = ToBytes(human.s)
    /\ pc' = "exit"
    /\ UNCHANGED <<prog, host, params, url, path, query, items, sent, served, result,
                   prompted, answers, stdout, stderr, exitcode, python, insecure, text,
                   width, lines, sizearg, count, human>>

NextSize ==
    \/ ToBytesCall
    \/ FromBytesCall
    \/ ToBytesOfFromBytes

SpecSize == InitSize /\ [][NextSize]_vars

(***************************************************************************)
(* Vocabulary of the properties                                            *)
(***************************************************************************)

\* A list command: a run of one of the pagination walkers.
IsWalk == prog \in PaginateAllProgs \cup PaginateProgs

\* The responses served so far are all successful pages.
AllPages == \A k \in 1..Len(served) : served[k].kind = "page"

\* The records of the pages served so far, in the order served.
RECURSIVE ServedRecords(_)
ServedRecords(rs) ==
    IF rs = <<>> THEN <<>>
    ELSE ServedRecords(SubSeq(rs, 1, Len(rs) - 1)) \o RecordValues(rs[Len(rs)].ids)

\* The number of records of the pages served so far.
RECURSIVE ServedCount(_)
ServedCount(rs) == IF rs = <<>> THEN 0 ELSE Len(Head(rs).ids) + ServedCount(Tail(rs))

\* The walker is left: it returned its list, or an exception ended the run.
WalkOver == pc \in {"returned", "exit"}

\* Page k was a successful page that carries a continuation reference.
HasNext(k) == served[k].kind = "page" /\ served[k].href # <<>>

\* The query string of a URL or reference: what follows the first "?".
QueryOf(u) == Partition(u, QuestionMark)[3]

\* The base endpoint https://<host>/api and the origin https://<host>.
BaseEndpoint == HttpsScheme \o host \o ApiSuffix
Origin == HttpsScheme \o host

(***************************************************************************)
(* C1                                                                      *)
(***************************************************************************)

\* C1: over a chain of successful pages the walker's accumulator, and the
\* list it returns, is the concatenation of the pages' `records` in request
\* order: nothing dropped, duplicated or reordered, and its length is the
\* sum of the page lengths.
C1_Concatenation ==
    (IsWalk /\ AllPages) =>
        /\ items = ServedRecords(served)
        /\ result.kind = "list" =>
            /\ result.items = ServedRecords(served)
            /\ Len(result.items) = ServedCount(served)

\* A walk of three successful pages returned its list, by each walker.
C1_Witness ==
    /\ IsWalk /\ AllPages
    /\ Len(served) = 3
    /\ result.kind = "list"
    /\ Len(result.items) >= 4

(***************************************************************************)
(* C2                                                                      *)
(***************************************************************************)

\* C2: over a finite chain of N successful pages the walker sends exactly N
\* GET requests, never a request before the answer to the previous one, and
\* then returns: a walk that ended on successful pages only has returned its
\* list after as many GETs as pages, the last page being the one without a
\* continuation reference.
C2_ExactlyNGets ==
    IsWalk =>
        /\ Len(sent) <= Len(served) + 1
        /\ \A i \in 1..Len(sent) : sent[i].method = MethodGet
        /\ (WalkOver /\ AllPages) =>
            /\ result.kind = "list"
            /\ Len(sent) = Len(served)
            /\ ~HasNext(Len(served))

(***************************************************************************)
(* C3                                                                      *)
(***************************************************************************)

\* C3: every DELETE on the wire was preceded by the confirmation prompt and
\* the operator's confirming answer.
C3_DeleteOnlyAfterConfirmation ==
    \A i \in 1..Len(sent) :
        sent[i].method = MethodDelete =>
            /\ prompted
            /\ answers # <<>>
            /\ Confirmed(answers[Len(answers)])

(***************************************************************************)
(* C4                                                                      *)
(***************************************************************************)

\* The text an error response is reported with: the body as it is for
\* get_page and for a body _req cannot decode, else the decoded body rendered.
ReportedBody(p, body) ==
    IF p \in PaginateAllProgs \/ ~JsonLoads(body).ok THEN body ELSE Str(JsonLoads(body).v)

\* The walk stopped at an error response: nothing more sent, nothing returned.
StoppedAtError ==
    /\ pc = "exit"
    /\ Len(sent) = Len(served)
    /\ result.kind = "raised"
    /\ exitcode = 1

C5_RootedReferenceAtHost ==
    prog \in PaginateAllProgs =>
        \A k \in 1..Len(served) :
            (HasNext(k) /\ StartsWith(served[k].href, Slash)) =>
                /\ Len(sent) > k
                /\ sent[k + 1].url = Origin \o served[k].href

(***************************************************************************)
(* C6                                                                      *)
(***************************************************************************)

\* C6: in _paginate, when page 1 carries /api/x?cursor=2 and page 2 carries
\* no reference, the second GET goes to exactly https://<host>/api/x?cursor=2
\* and the result holds the records of both pages in page order.
C6_TwoPageWalk ==
    (/\ prog \in PaginateProgs
     /\ Len(served) = 2
     /\ served[1].kind = "page" /\ served[1].href = HrefRooted
     /\ served[2].kind = "page" /\ served[2].href = <<>>) =>
        /\ Len(sent) = 2
        /\ sent[2].url = Origin \o HrefRooted
        /\ result.kind = "list"
        /\ result.items = RecordValues(served[1].ids \o served[2].ids)

(***************************************************************************)
(* C7                                                                      *)
(***************************************************************************)

\* C7: the query string of each follow-up request of _paginate is the query
\* string of the continuation reference, byte for byte.
C7_QueryByteForByte ==
    prog \in PaginateProgs =>
        \A k \in 1..Len(served) :
            (HasNext(k) /\ Len(sent) > k) =>
                QueryOf(sent[k + 1].url) = QueryOf(served[k].href)

(***************************************************************************)
(* C8                                                                      *)
(***************************************************************************)

\* C8: a continuation reference that is an absolute URL is requested
\* verbatim, by paginate_all and by _paginate.
C8_AbsoluteReferenceVerbatim ==
    IsWalk =>
        \A k \in 1..Len(served) :
            (HasNext(k) /\ StartsWith(served[k].href, HttpsScheme)) =>
                /\ Len(sent) > k
                /\ sent[k + 1].url = served[k].href

(***************************************************************************)
(* C9                                                                      *)
(***************************************************************************)

\* C9: a continuation reference that is neither an absolute URL nor starts
\* with "/" is fetched relative to the base endpoint https://<host>/api, and
\* the walk does not fail on it, in paginate_all and in _paginate.
C9_RelativeReferenceFetched ==
    IsWalk =>
        \A k \in 1..Len(served) :
            (/\ HasNext(k)
             /\ ~StartsWith(served[k].href, HttpsScheme)
             /\ ~StartsWith(served[k].href, Slash)) =>
                /\ Len(sent) > k
                /\ sent[k + 1].url = BaseEndpoint \o Slash \o served[k].href

(***************************************************************************)
(* C10                                                                     *)
(***************************************************************************)

\* C10: a response with status < 400 whose body is empty or is not the
\* envelope ends the walk with an error, never with a returned list.
C10_MalformedBodyAborts ==
    (IsWalk /\ \E k \in 1..Len(served) : served[k].kind = "malformed") =>
        /\ pc = "exit"
        /\ result.kind = "raised"
        /\ exitcode = 1

(***************************************************************************)
(* C14                                                                     *)
(***************************************************************************)

\* wrap_text has returned.
Wrapped == prog = "wrap_text" /\ pc = "exit"

\* The items of a text: its pieces between ", ", the empty ones left out.
ItemsOfText(t) == SelectSeq(Split(t, CommaSep), LAMBDA it : it # <<>>)

\* The items of the lines of a wrapped cell, in order.
RECURSIVE ItemsOfLines(_)
ItemsOfLines(ls) ==
    IF ls = <<>> THEN <<>> ELSE ItemsOfText(Head(ls)) \o ItemsOfLines(Tail(ls))

\* C14: wrap_text never splits or alters an item: the items of its lines,
\* taken in order, are exactly the items of the text it was given, none
\* lost, none duplicated, no character of an item removed.
C14_WholeItems == Wrapped => ItemsOfLines(lines) = ItemsOfText(text)

(***************************************************************************)
(* C15                                                                     *)
(***************************************************************************)

\* C15: every line wrap_text returns is at most `width` characters long,
\* also when an item is longer than the width.
C15_LinesWithinWidth == Wrapped => \A i \in 1..Len(lines) : Len(lines[i]) <= width

(***************************************************************************)
(* C16                                                                     *)
(***************************************************************************)

\* C16: wrap_text returns more than one line only when the text is longer
\* than the width.
C16_OneLineWhenItFits == Wrapped => (Len(lines) > 1 => Len(text) > width)

(***************************************************************************)
(* C20                                                                     *)
(***************************************************************************)

\* The answer is the word yes, in any mix of upper and lower case.
IsYesIgnoringCase(a) ==
    /\ Len(a) = 3
    /\ a[1] \in {"y", "Y"} /\ a[2] \in {"e", "E"} /\ a[3] \in {"s", "S"}

\* C20: in lun/del.py and lunmap/del.py a DELETE is on the wire only when
\* the operator answered yes ignoring case; after every other answer the
\* script has printed the abort message and left with status 0, and nothing
\* but GET requests were sent.
C20_DeleteOnlyOnYes ==
    prog \in DelProgs =>
        /\ (\E i \in 1..Len(sent) : sent[i].method = MethodDelete) =>
                (answers # <<>> /\ IsYesIgnoringCase(answers[Len(answers)]))
        /\ (answers # <<>> /\ ~IsYesIgnoringCase(answers[Len(answers)])) =>
                /\ pc = "exit" /\ exitcode = 0
                /\ stdout # <<>> /\ stdout[Len(stdout)] = "Aborting... No changes made!"
                /\ \A i \in 1..Len(sent) : sent[i].method = MethodGet

\* lunmap/del.py sent its DELETE after the answer YES, and the server
\* accepted it.
C20_Witness ==
    /\ prog = "lunmap/del.py"
    /\ answers = <<AnswerUpper>>
    /\ Len(sent) = 2 /\ sent[2].method = MethodDelete
    /\ pc = "exit" /\ exitcode = 0

(***************************************************************************)
(* The tables of the list commands                                         *)
(***************************************************************************)
\* The commands of run.py whose main hands the list to a renderer of
\* utils/utils.py.
Rendering == prog \in RunListProgs /\ pc = "exit"

\* The records in which keys are missing and every key present holds a
\* value of the documented type.
KeysMissing == {IgEmpty, IgNoSvmName, LunNoSpace, LunNoSize, MapEmpty, MapNoLun, MapNoNode}

\* The records with every key.
Complete == {IgFull, LunFull, MapFull}

AllIn(rs, S) == \A i \in 1..Len(rs) : rs[i] \in S

\* C12: a list whose records lack keys (a LUN without `space` or
\* `space.size`, a mapping without `lun`, `igroup` or `svm`, an igroup
\* without any key) is printed by lun_list_summary, igroup_display_summary
\* and lunmap_display_summary without an exception: the command ends with
\* status 0 and nothing on stderr.
C12_MissingKeysNeverRaise ==
    (Rendering /\ result.items # <<>> /\ AllIn(result.items, KeysMissing \cup Complete))
        => (exitcode = 0 /\ stderr = <<>>)

\* The records in which a field is null or holds a value of another type.
Mistyped ==
    {IgNullName, IgSvmNull, IgSvmNested, IgInitiatorNumber, MapSvmNull, MapNullName}

\* C13: a list whose records hold a null or a value of an unexpected type
\* (`name: null`, `svm: null`, an object as `svm.name`, a number as the name
\* of an initiator) is printed by igroup_display_summary and
\* lunmap_display_summary without an exception: the command ends with
\* status 0 and nothing on stderr.
C13_MistypedNeverRaise ==
    (Rendering /\ prog \in {"run.py igroup-list", "run.py lunmap-list"}
       /\ result.items # <<>> /\ AllIn(result.items, Mistyped \cup Complete))
        => (exitcode = 0 /\ stderr = <<>>)

\* The columns of an igroup record as the table shows them.
WrappedInitiators(rec) ==
    WrapText(JoinNames(DictGet(rec.kv, KeyInitiators, EmptyList)).s, 45)

WrappedMaps(rec) == WrapText(FmtLunMaps(DictGet(rec.kv, KeyLunMaps, EmptyList)).s, 80)

\* The larger of the line counts of the two wrapped columns.
LineCount(rec) ==
    IF Len(WrappedInitiators(rec)) >= Len(WrappedMaps(rec))
    THEN Len(WrappedInitiators(rec)) ELSE Len(WrappedMaps(rec))

\* The k-th line of a wrapped column, the empty string past its last line.
CellAt(ls, k) == IF k <= Len(ls) THEN ls[k] ELSE <<>>

\* A non-wrapping column: its value on the first line, blank on the others.
OnFirst(v, k) == IF k = 1 THEN v.s ELSE <<>>

\* The k-th physical line of a record: each column padded to its width.
PhysicalLine(rec, k) ==
    Join(Space,
         <<LJust(OnFirst(Pick2(rec, KeySvm, KeyName, EmptyStr), k), 35),
           LJust(OnFirst(DictGet(rec.kv, KeyName, EmptyStr), k), 20),
           LJust(OnFirst(DictGet(rec.kv, KeyProtocol, EmptyStr), k), 9),
           LJust(OnFirst(DictGet(rec.kv, KeyOsType, EmptyStr), k), 10),
           LJust(CellAt(WrappedInitiators(rec), k), 45),
           LJust(OnFirst(FmtParentIgroups(DictGet(rec.kv, KeyParentIgroups, EmptyList)), k), 25),
           CellAt(WrappedMaps(rec), k)>>)

PhysicalLines(rec) == [k \in 1..LineCount(rec) |-> PhysicalLine(rec, k)]

RECURSIVE PhysicalBody(_)
PhysicalBody(records) ==
    IF records = <<>> THEN <<>>
    ELSE PhysicalLines(Head(records)) \o PhysicalBody(Tail(records))

\* An igroup table printed to its end.
IgroupTablePrinted ==
    /\ prog \in {"igroup/list.py", "run.py igroup-list"}
    /\ pc = "exit" /\ exitcode = 0
    /\ result.items # <<>>

\* The lines of the table between the rule under the header and the last
\* rule.
TableBody == SubSeq(stdout, 6, Len(stdout) - 1)

\* C17: an igroup record is printed on as many physical lines as the longer
\* of its two wrapped columns (initiators, LUN maps) has lines; the shorter
\* wrapped column is an empty string on the lines past its end, and vserver,
\* igroup, protocol, os_type and parent igroups stand on the first physical
\* line only and are blank on the later ones.
C17_RecordLines == IgroupTablePrinted => TableBody = PhysicalBody(result.items)

\* A table of two records of two physical lines each was printed: the first
\* has two lines of initiators and one of maps, the second one line of
\* initiators and two of maps.
C17_Witness ==
    /\ IgroupTablePrinted
    /\ result.items = <<IgFull, IgMaps>>
    /\ Len(WrappedInitiators(IgFull)) = 2 /\ Len(WrappedMaps(IgFull)) = 1
    /\ Len(WrappedInitiators(IgMaps)) = 1 /\ Len(WrappedMaps(IgMaps)) = 2
    /\ Len(TableBody) = 4
    /\ StartsWith(TableBody[2], Repeat(" ", 78))

\* A cell of fixed width: the text cut to the width, then padded on the
\* right.
FixedCell(s, w) == LJust(IF Len(s) > w THEN SubSeq(s, 1, w) ELSE s, w)

\* The k-th physical line of a record with every single-valued column in a
\* cell of its fixed width, so that the columns start at the offsets 1, 37,
\* 58, 68, 79, 125 and 151 of the line.
FixedLine(rec, k) ==
    Join(Space,
         <<FixedCell(OnFirst(Pick2(rec, KeySvm, KeyName, EmptyStr), k), 35),
           FixedCell(OnFirst(DictGet(rec.kv, KeyName, EmptyStr), k), 20),
           FixedCell(OnFirst(DictGet(rec.kv, KeyProtocol, EmptyStr), k), 9),
           FixedCell(OnFirst(DictGet(rec.kv, KeyOsType, EmptyStr), k), 10),
           FixedCell(CellAt(WrappedInitiators(rec), k), 45),
           FixedCell(OnFirst(FmtParentIgroups(DictGet(rec.kv, KeyParentIgroups, EmptyList)), k), 25),
           CellAt(WrappedMaps(rec), k)>>)

FixedLines(rec) == [k \in 1..LineCount(rec) |-> FixedLine(rec, k)]

RECURSIVE FixedBody(_)
FixedBody(records) ==
    IF records = <<>> THEN <<>>
    ELSE FixedLines(Head(records)) \o FixedBody(Tail(records))

\* C18: in the igroup table every single-valued column is left-justified and
\* padded or cut to its fixed width (35, 20, 9, 10, 45, 25), so that on every
\* printed line each column starts at the same offset, whatever the length
\* of the values.
C18_FixedWidthColumns == IgroupTablePrinted => TableBody = FixedBody(result.items)

\* A bordered notice stands on stdout: two lines of fifty-one asterisks
\* around lines that begin and end with an asterisk.
BorderedNotice ==
    \E i \in 1..Len(stdout) : \E j \in (i + 2)..Len(stdout) :
        /\ stdout[i] = Repeat("*", 51) /\ stdout[j] = Repeat("*", 51)
        /\ \A k \in (i + 1)..(j - 1) : StartsWith(stdout[k], <<"*">>) /\ EndsWith(stdout[k], <<"*">>)

\* A table header stands on stdout.
HeaderPrinted ==
    \E i \in 1..Len(stdout) : stdout[i] \in {IgroupHeader, LunListHeader, LunMapHeader}

\* C19: handed an empty list, igroup_display_summary, lun_list_summary and
\* lunmap_display_summary print the bordered notice and no table header, and
\* the command ends with status 0 and nothing on stderr.
C19_EmptyListNotice ==
    (Rendering /\ result.items = <<>>)
        => (BorderedNotice /\ ~HeaderPrinted /\ exitcode = 0 /\ stderr = <<>>)

\* The first answer to a listing was a page that names a following page.
FirstPageContinues ==
    /\ served # <<>>
    /\ served[1].kind = "page"
    /\ served[1].href # <<>>

\* The GET requests on the wire.
GetsSent == {i \in 1..Len(sent) : sent[i].method = MethodGet}

\* C11: when the first response of a LUN-map listing carries a continuation
\* reference, lunmap/list.py, like the other list commands, requests the
\* following page before it ends: at the end of the run a second GET was
\* sent.
C11_LunMapListFollowsPages ==
    (prog \in LunMapListProgs /\ pc = "exit" /\ FirstPageContinues)
        => Cardinality(GetsSent) >= 2

(***************************************************************************)
(* The views of lunmap/list.py                                             *)
(***************************************************************************)
\* A line of stdout is the given line.
Printed(line) == \E i \in 1..Len(stdout) : stdout[i] = line

\* The listing answered with at least one mapping.
MappingsReturned ==
    /\ Len(served) = 1
    /\ served[1].kind = "page"
    /\ served[1].ids # <<>>

\* C23: lunmap/list.py run with --uuid, the server returning at least one
\* mapping, prints the UUID view (the header with the LUN UUID and Igroup
\* UUID columns) and not the detailed view, with or without a --lun or
\* --igroup filter.
C23_UuidViewWhenAsked ==
    (prog = "lunmap/list.py --uuid" /\ pc = "exit" /\ MappingsReturned)
        => (Printed(LunMapUuidHeader) /\ ~Printed(LunMapDetailHeader))

(***************************************************************************)
(* The host of the requests                                                *)
(***************************************************************************)
\* The request is addressed to the configured host: its URL is under
\* https://<host>/.
ToConfiguredHost(req) == StartsWith(req.url, Origin \o Slash)

\* C26: paginate_all sends every request with the headers that hold the
\* Authorization value; each of these requests, those that follow a
\* continuation reference included, is addressed to the configured HOST.
C26_CredentialsStayAtHost ==
    prog \in PaginateAllProgs => \A i \in 1..Len(sent) : ToConfiguredHost(sent[i])

(***************************************************************************)
(* The delete scripts                                                      *)
(***************************************************************************)
\* A DELETE is on the wire.
DeleteSent == \E i \in 1..Len(sent) : sent[i].method = MethodDelete

\* The lookup found a record, and the record was displayed.
LookupFoundAndShown ==
    /\ served # <<>>
    /\ served[1].kind = "page"
    /\ served[1].ids # <<>>
    /\ \E i \in 1..Len(stdout) : stdout[i] = "To be DELETED"

\* C27: lun/del.py and lunmap/del.py send a DELETE only after a lookup that
\* returned at least one record, displayed before the prompt; after a lookup
\* that found nothing no DELETE is sent, whatever the answer.
C27_DeleteOnlyAfterRecordShown ==
    (prog \in DelProgs /\ DeleteSent) => LookupFoundAndShown

\* C28: the DELETE of lunmap/del.py carries the query parameters lun.name
\* and igroup.name with the operator's values and no other: get_lun leaves
\* the params mapping as main built it.
C28_DeleteParamsAsGiven ==
    (prog = "lunmap/del.py" /\ DeleteSent)
        => /\ params = LunMapDeleteParams(LunArg, IgroupArg)
           /\ \A i \in 1..Len(sent) :
                sent[i].method = MethodDelete
                    => sent[i].url = PreparedUrl(BaseApi(host) \o LunMapsPath,
                                                 LunMapDeleteParams(LunArg, IgroupArg))

\* C21: in run.py, lunmap/list.py and lunmap/create.py, the scripts whose
\* parser has --insecure, every request is made with TLS verification on
\* exactly when --insecure is not on the command line.
C21_VerifyUnlessInsecure ==
    (ScriptOf(prog) \in InsecureScripts /\ sent # <<>>)
        => (VerifyOf(ScriptOf(prog), insecure) <=> ~insecure)

\* The server answered the first request of the run with a status below 400.
AnsweredBelow400 == served # <<>> /\ served[1].status < 400

\* C22: a finished run of run.py igroup-add-initiators --igroup-uuid U
\* --initiator names... has put exactly one request on the wire, a POST to
\* /protocols/san/igroups/U/initiators whose body lists the names, and has
\* not ended on the error path when the answer's status was below 400.
C22_AddInitiatorsPosts ==
    (prog = "run.py igroup-add-initiators" /\ pc = "exit")
        => /\ Len(sent) = 1
           /\ sent[1].method = MethodPost
           /\ sent[1].url = ClientBase(host) \o RunAddInitiatorsPath(UuidArg)
           /\ \E initiator \in InitiatorArgs : sent[1].body = RunAddInitiatorsBody(initiator)
           /\ AnsweredBelow400 => (exitcode = 0 /\ stderr = <<>>)

\* C29: a run of run.py lun-create, lunmap-create or igroup-create whose
\* POST the server answered with a status below 400 never ends on the error
\* path: no ERROR line on stderr and no exit status 1, whatever the body.
C29_CreateSuccessNeverErrors ==
    (prog \in RunCreateProgs /\ pc = "exit" /\ AnsweredBelow400)
        => (exitcode = 0 /\ stderr = <<>>)

\* The suffix letters a size may end with, by the exponent each stands for.
SuffixLetters == <<{"K", "k"}, {"M", "m"}, {"G", "g"}, {"T", "t"}, {"P", "p"}>>

\* The exponent of the suffix letter c, 0 when c is none.
ExponentOf(c) ==
    IF \E k \in 1..Len(SuffixLetters) : c \in SuffixLetters[k]
    THEN CHOOSE k \in 1..Len(SuffixLetters) : c \in SuffixLetters[k]
    ELSE 0

AllDecimalDigits(d) == d # <<>> /\ \A i \in 1..Len(d) : IsDecimalDigit(d[i])

\* What a text without surrounding whitespace stands for: digits, or digits
\* and one suffix letter; ValueError for a text of any other form.
SizeMeant(t) ==
    IF AllDecimalDigits(t) THEN Bytes(IntOfDigits(t), 0)
    ELSE IF t # <<>> /\ ExponentOf(t[Len(t)]) > 0 /\ AllDecimalDigits(SubSeq(t, 1, Len(t) - 1))
         THEN Bytes(IntOfDigits(SubSeq(t, 1, Len(t) - 1)), ExponentOf(t[Len(t)]))
         ELSE Raise("ValueError", InvalidSizeFormat)

\* The outcome b is the one wanted: the same byte count, or the same exception.
SameOutcome(b, wanted) ==
    IF wanted.ok THEN b = wanted ELSE ~b.ok /\ b.exc = wanted.exc

\* The size a POST of lun-create carries in space.size.
SizeSent(req) == DictGet(DictGet(req.body.kv, KeySpace, PyNone).kv, KeySize, PyNone)

\* C24: to_bytes gives digits n with an optional suffix K, M, G, T, P in
\* either case, whitespace around them allowed, the byte count n * 1024**k,
\* and raises ValueError for every other text; the POST of lun-create
\* carries that byte count as space.size.
C24_ToBytes ==
    /\ (prog = "to_bytes" /\ pc = "exit") => SameOutcome(bytes, SizeMeant(Strip(sizearg)))
    /\ (prog = "run.py lun-create" /\ sent # <<>>)
          => /\ SizeMeant(Strip(sizearg)).ok
             /\ SizeSent(sent[1]).n = SizeMeant(Strip(sizearg)).n
             /\ SizeSent(sent[1]).e = SizeMeant(Strip(sizearg)).e

\* C25: for n = k * 1024**j with 1 <= k < 1024 and 0 <= j <= 5, from_bytes(n)
\* is the digits of k followed by the j-th unit of '', K, M, G, T, P, and
\* to_bytes gives n back from it.
C25_FromBytesRoundTrip ==
    (prog = "from_bytes" /\ pc # "main" /\ count.n >= 1 /\ count.n < 1024)
        => /\ human = PyStr(IntStr(count.n) \o UnitOf(count.e))
           /\ pc = "exit" => bytes = Bytes(count.n, count.e)

====
